---- MODULE Spec2Model ----
(***************************************************************************)
(* A model of the relative clock of noodlebox/clock (package relativetime) *)
(* over an integer reference clock.  The repository holds two builds of    *)
(* relativetime/clock.go:                                                  *)
(*   "sharded": nwakers waker shards, each with its own queue and lock,    *)
(*              woken through the reference clock's AfterFunc              *)
(*              (clock.go lines 1-613);                                    *)
(*   "single" : one queue under one mutex, woken by a goroutine that       *)
(*              selects on the reference timer's channel                    *)
(*              (clock.go lines 614-1124).                                 *)
(* Both are modelled; the variable build says which one a behaviour runs.  *)
(* Times and durations are integers (steppedtime.Time, time.Duration).     *)
(***************************************************************************)
EXTENDS Integers, Sequences, FiniteSets, TLC

\* ---------------------------------------------------------------- bounds
NTimers  == 2      \* timer handles a behaviour may create
MaxOps   == 3      \* operations a behaviour calls on the clock and its handles
MaxRef   == 2      \* the reference clock runs from 0 to MaxRef
MaxLocal == 4      \* Step, Set and Tick keep local time within 0..MaxLocal
MaxD     == 2      \* durations passed to NewTimer/Reset/Step are 0..MaxD
MaxCalls == 1      \* handle operations in flight at the same time
MaxGo    == 4      \* goroutines pending when a new batch may be spawned
MaxWake  == 1      \* undelivered wake callbacks per waker
MaxFires == 2      \* a handle is not Reset again after this many fires
MinD     == 1      \* a method that checks its sign is passed durations from -MinD

\* ------------------------------------------------------ program constants
nwakers == 4

Timers == 1..NTimers
Wakers == 0..(nwakers - 1)
Scales == {0, 1, 2}
Durs   == 0..MaxD
AnyDurs == (0 - MinD)..MaxD
Builds == {"sharded", "single"}

VARIABLES
    build,   \* which build of clock.go runs
    rnow,    \* the reference clock's current time (ref.Now())
    c,       \* Clock fields: scale, active, now, rNow (the sync point)
    wk,      \* per waker: queue, waker (reference timer), wakeAt / nextAt
    pool,    \* sharded: the channel c.waker, a FIFO of waker shards
    tm,      \* timer records: when, period, index; kind and owner of the handle
    ch,      \* the handle's channel buffer (capacity 1)
    calls,   \* operations and wake callbacks in flight, between their steps
    gos,     \* sharded: goroutines spawned by resetWakers / checkWakers
    obs,     \* observations: fire counts, values and causes
    nops     \* operations called so far

vars == <<build, rnow, c, wk, pool, tm, ch, calls, gos, obs, nops>>

\* ------------------------------------------------------------- arithmetic
Max(a, b) == IF a >= b THEN a ELSE b
Min(a, b) == IF a <= b THEN a ELSE b

\* Go converts float64 to int64 by truncating toward zero.
Trunc(n, d) == IF n >= 0 THEN n \div d ELSE -((-n) \div d)

\* ref.Seconds(x.Seconds() * s): a duration scaled by s, back to a Duration.
SecondsMul(dt, s) == Trunc(dt * s, 1)

\* ref.Seconds(x.Seconds() / s): a duration divided by s, back to a Duration.
SecondsDiv(dt, s) == IF s > 0 THEN Trunc(dt, s) ELSE Trunc(-dt, -s)

\* ------------------------------------------------------------ event queue
\* A heap is H = [q |-> sequence of timer ids, t |-> the timer records].
\* Go slices are 0-based: At(q, i) is q[i].
At(q, i) == q[i + 1]
Put(q, i, x) == [q EXCEPT ![i + 1] = x]

peek(q) == IF Len(q) = 0 THEN 0 ELSE At(q, 0)

\* Place x at position i and record the position in x.index.
Place(H, i, x) == [q |-> Put(H.q, i, x), t |-> [H.t EXCEPT ![x].index = i]]

RECURSIVE siftupLoop(_, _, _)
siftupLoop(H, x, i) ==
    IF i > 0
    THEN LET p == (i - 1) \div 4
         IN IF ~(H.t[At(H.q, p)].when > H.t[x].when)
            THEN IF x # At(H.q, i) THEN Place(H, i, x) ELSE H
            ELSE siftupLoop(Place(H, i, At(H.q, p)), x, p)
    ELSE IF x # At(H.q, i) THEN Place(H, i, x) ELSE H

siftup(H, x) == siftupLoop(H, x, H.t[x].index)

\* Variant of the choice of the favourite child that takes the first child.
favorite_first(H, cbest, i, c4) == cbest

\* The favourite child of i among c..c4: the first one with the least when.
RECURSIVE favorite(_, _, _, _)
favorite(H, cbest, i, c4) ==
    IF i > c4 THEN cbest
    ELSE IF H.t[At(H.q, cbest)].when > H.t[At(H.q, i)].when
         THEN favorite(H, i, i + 1, c4)
         ELSE favorite(H, cbest, i + 1, c4)

RECURSIVE siftdownLoop(_, _, _, _)
siftdownLoop(H, x, i, n) ==
    LET c1 == i * 4 + 1
        c4 == Min(c1 + 3, n - 1)
    IN IF c1 >= n
       THEN IF x # At(H.q, i) THEN Place(H, i, x) ELSE H
       ELSE LET cb == favorite(H, c1, c1 + 1, c4)
            IN IF ~(H.t[x].when > H.t[At(H.q, cb)].when)
               THEN IF x # At(H.q, i) THEN Place(H, i, x) ELSE H
               ELSE siftdownLoop(Place(H, i, At(H.q, cb)), x, cb, n)

siftdown(H, x) == siftdownLoop(H, x, H.t[x].index, Len(H.q))

fix(H, x) ==
    LET i0 == H.t[x].index
        H1 == siftdown(H, x)
    IN IF H1.t[x].index = i0 THEN siftup(H1, x) ELSE H1

insert(H, x) ==
    siftup([q |-> Append(H.q, x), t |-> [H.t EXCEPT ![x].index = Len(H.q)]], x)

\* Variant of remove that leaves the index of the removed record as it was.
remove_stale(H, x) ==
    LET i == H.t[x].index
        n == Len(H.q) - 1
    IN IF i # n
       THEN fix(Place([q |-> SubSeq(H.q, 1, n), t |-> H.t], i, At(H.q, n)), At(H.q, n))
       ELSE [q |-> SubSeq(H.q, 1, n), t |-> H.t]

remove(H, x) ==
    LET i == H.t[x].index
        n == Len(H.q) - 1
    IN IF i # n
       THEN LET last == At(H.q, n)
                H1 == Place([q |-> SubSeq(H.q, 1, n), t |-> H.t], i, last)
                H2 == fix(H1, last)
            IN [q |-> H2.q, t |-> [H2.t EXCEPT ![x].index = -1]]
       ELSE [q |-> SubSeq(H.q, 1, n), t |-> [H.t EXCEPT ![x].index = -1]]

\* Variant of unschedule that removes the head when the record is not queued.
unschedule_head(H, x) ==
    IF H.t[x].index = -1
    THEN IF Len(H.q) = 0 THEN H ELSE remove(H, At(H.q, 0))
    ELSE remove(H, x)

\* Variant of reschedule that leaves a record that is not queued where it is.
reschedule_queued(H, x) == IF H.t[x].index = -1 THEN H ELSE fix(H, x)

\* schedule / unschedule / reschedule of the scheduler (heap.Push,
\* heap.Remove, heap.Fix on the queue).
schedule(H, x) == insert(H, x)

unschedule(H, x) == IF H.t[x].index = -1 THEN H ELSE remove(H, x)

reschedule(H, x) == IF H.t[x].index = -1 THEN schedule(H, x) ELSE fix(H, x)


\* ------------------------------------------------------ coordinate transform
\* cl is the record of Clock fields; r a reference instant.
\* Variant of nowLocal that adds the reference duration without the scale.
nowLocal_unscaled(cl, r) ==
    IF ~cl.active \/ cl.scale = 0 \/ r = cl.rNow
    THEN cl.now
    ELSE cl.now + (r - cl.rNow)

\* Variant of nowLocal that tracks the reference while the clock is stopped.
nowLocal_unpaused(cl, r) ==
    IF cl.scale = 0 \/ r = cl.rNow
    THEN cl.now
    ELSE LET dt == r - cl.rNow
         IN cl.now + (IF cl.scale # 1 THEN SecondsMul(dt, cl.scale) ELSE dt)

nowLocal(cl, r) ==
    IF ~cl.active \/ cl.scale = 0 \/ r = cl.rNow
    THEN cl.now
    ELSE LET dt == r - cl.rNow
         IN cl.now + (IF cl.scale # 1 THEN SecondsMul(dt, cl.scale) ELSE dt)

\* sharded build: c.now = c.nowLocal(now); c.rNow = now
advanceRef(cl, r) == [cl EXCEPT !.now = nowLocal(cl, r), !.rNow = r]

\* single build: the same update written out in place
advanceRefMx(cl, r) ==
    LET then == cl.rNow
        c1 == [cl EXCEPT !.rNow = r]
    IN IF ~cl.active \/ cl.scale = 0 \/ r = then
       THEN c1
       ELSE LET dt == r - then
            IN [c1 EXCEPT !.now = cl.now +
                   (IF cl.scale # 1 THEN SecondsMul(dt, cl.scale) ELSE dt)]

Runnable(cl) == cl.active /\ cl.scale # 0

\* The local time at the current reference instant.
LocalNow == nowLocal(c, rnow)

\* --------------------------------------------------------------- firing
\* A handler works on a machine record
\*   M = [c, w, t, ch, obs, spawn]
\* c the Clock fields, w the record of the waker it holds the lock of,
\* t the timer records, ch the channels, obs the observations, spawn the
\* callbacks it starts.
Pending(t, x) == t[x].kind # "none" /\ t[x].index # -1

\* Below every local time a behaviour can compute: no Now() has returned yet.
Never == 0 - (MaxLocal + 2 * MaxRef + 1)

\* The buffer of a closed channel.  No operation of the clocks closes the
\* channel of a Timer or of a Ticker; the event of Sleep closes the channel
\* its caller waits on.
Closed == <<Never>>

\* Variant of fire that sends the when of the event, not the local time.
fire_when(M, x, whenx, now, by) ==
    [M EXCEPT
       !.ch[x] = IF M.t[x].kind \in {"timer", "ticker"} /\ M.ch[x] = <<>>
                 THEN <<whenx>> ELSE @,
       !.obs.fired[x] = @ + 1,
       !.obs.lastFire = now,
       !.obs.lastBy = by,
       !.obs.lastRun = Runnable(M.c)]

\* Variant of fire whose send replaces the value the channel holds.
fire_overwrite(M, x, whenx, now, by) ==
    [M EXCEPT
       !.ch[x] = IF M.t[x].kind \in {"timer", "ticker"} THEN <<now>> ELSE @,
       !.obs.fired[x] = @ + 1,
       !.obs.lastFire = now,
       !.obs.lastBy = by,
       !.obs.lastRun = Runnable(M.c)]

\* Variant of fire in which the event of AfterFunc calls f itself, f(), where
\* the code has go f(): f has run when fire returns, under the lock of the
\* handler that fired it.
fire_inline(M, x, whenx, now, by) ==
    [M EXCEPT
       !.ch[x] = CASE M.t[x].kind = "sleep" -> Closed
                   [] M.t[x].kind \in {"timer", "ticker"} /\ M.ch[x] = <<>> -> <<now>>
                   [] OTHER -> @,
       !.obs.fired[x] = @ + 1,
       !.obs.ran[x] = IF M.t[x].kind = "func" THEN @ + 1 ELSE @,
       !.obs.lastFire = now,
       !.obs.lastBy = by,
       !.obs.lastRun = Runnable(M.c)]

\* t.f(now): NewTimer and NewTicker send without blocking on a channel of
\* capacity 1; AfterFunc starts a goroutine for f; Sleep closes the channel
\* its caller waits on.  The observations record
\* the fire: its count, value, cause, and whether it overtook an event that
\* was pending with an earlier when.
fire(M, x, whenx, now, by) ==
    LET o  == M.obs
        o1 == [o EXCEPT
                 !.fired[x] = @ + 1,
                 !.shots[x] = @ + 1,
                 !.lastFire = now,
                 !.lastBy = by,
                 !.lastRun = Runnable(M.c),
                 !.ooo = @ \/ o.over[x],
                 !.over = [j \in Timers |->
                             IF j = x THEN FALSE
                             ELSE o.over[j] \/
                                  (Pending(M.t, j) /\ M.t[j].when < whenx)]]
    IN [M EXCEPT
          !.ch[x] = CASE M.t[x].kind = "sleep" -> Closed
                      [] M.t[x].kind \in {"timer", "ticker"} /\ M.ch[x] = <<>> -> <<now>>
                      [] OTHER -> @,
          !.obs = o1]

\* Variant of Due that takes an event one unit before its time.
DueEarly(t, x, now) == ~(t[x].when > now + 1)

\* Variant of Due that takes an event only after its time: when.Before(now)
DueStrict(t, x, now) == t[x].when < now

\* The loop condition of checkSchedule: !t.when.After(now)
Due(t, x, now) == ~(t[x].when > now)

\* Variant of drain that moves a ticker on by one period from its old when.
RECURSIVE drain_burst(_, _, _)
drain_burst(M, now, by) ==
    LET x == peek(M.w.queue)
    IN IF x # 0 /\ Due(M.t, x, now)
       THEN LET whenx == M.t[x].when
                H0 == [q |-> M.w.queue, t |-> M.t]
                H1 == IF M.t[x].period <= 0
                      THEN unschedule(H0, x)
                      ELSE reschedule([H0 EXCEPT !.t[x].when = whenx + M.t[x].period], x)
                M1 == [M EXCEPT !.w.queue = H1.q, !.t = H1.t]
            IN drain_burst(fire(M1, x, whenx, now, by), now, by)
       ELSE M

\* Variant of drain that puts a one-shot event back, one unit later.
RECURSIVE drain_again(_, _, _)
drain_again(M, now, by) ==
    LET x == peek(M.w.queue)
    IN IF x # 0 /\ Due(M.t, x, now)
       THEN LET whenx == M.t[x].when
                H0 == [q |-> M.w.queue, t |-> M.t]
                H1 == IF M.t[x].period <= 0
                      THEN reschedule([H0 EXCEPT !.t[x].when = now + 1], x)
                      ELSE reschedule([H0 EXCEPT !.t[x].when = now + M.t[x].period], x)
                M1 == [M EXCEPT !.w.queue = H1.q, !.t = H1.t]
            IN drain_again(fire(M1, x, whenx, now, by), now, by)
       ELSE M

\* Variant of drain with an if in place of the for: it fires the head, if
\* due, and no more.
drain_one(M, now, by) ==
    LET x == peek(M.w.queue)
    IN IF x # 0 /\ Due(M.t, x, now)
       THEN LET whenx == M.t[x].when
                H0 == [q |-> M.w.queue, t |-> M.t]
                H1 == IF M.t[x].period <= 0
                      THEN unschedule(H0, x)
                      ELSE reschedule([H0 EXCEPT !.t[x].when = now + M.t[x].period], x)
                M1 == [M EXCEPT !.w.queue = H1.q, !.t = H1.t]
            IN fire(M1, x, whenx, now, by)
       ELSE M

\* The loop of checkSchedule: fire every head that is not after now.
RECURSIVE drain(_, _, _)
drain(M, now, by) ==
    LET x == peek(M.w.queue)
    IN IF x # 0 /\ Due(M.t, x, now)
       THEN LET whenx == M.t[x].when
                H0 == [q |-> M.w.queue, t |-> M.t]
                H1 == IF M.t[x].period <= 0
                      THEN unschedule(H0, x)
                      ELSE reschedule([H0 EXCEPT !.t[x].when = now + M.t[x].period], x)
                M1 == [M EXCEPT !.w.queue = H1.q, !.t = H1.t]
            IN drain(fire(M1, x, whenx, now, by), now, by)
       ELSE M

\* ---------------------------------------------------- operations in flight
\* A call record: the operation, its handle (or waker), its duration, where
\* it stands, the reference time it read and the local time Now() gave it.
\*   pc = "sync": has read ref.Now(), will compute nowLocal under the lock
\*   pc = "lock": has its now, will take the scheduler's lock
Call(op, i, d, pc, r, now) ==
    [op |-> op, i |-> i, d |-> d, pc |-> pc, r |-> r, now |-> now]

UserOps ==
    {"Now", "NewTimer", "NewTicker", "AfterFunc", "Stop", "Reset", "Sleep", "NextAt"}

\* The calls that are at work on the clock; a Sleep that waits for its event
\* (pc = "wait") is not.
UserCalls == {k \in calls : k.op \in UserOps /\ k.pc # "wait"}

WakeCalls(w) == {k \in calls : k.op = "wake" /\ k.i = w}

\* Nothing is in flight: no call, no callback, no goroutine.
Quiet == calls = {} /\ gos = {}

\* ----------------------------------------------------- single build: waker
\* The reference timer of the single build has a channel: "armed" until the
\* reference fires it, "tick" while the value sits in the channel and the
\* waker goroutine has not chosen between it and the interrupt, "idle" once
\* the goroutine is done (sleep closed) and the channel is empty.
NilTimer == [st |-> "nil", at |-> 0]
IdleTimer == [st |-> "idle", at |-> 0]

\* go c.wake(t): the callback of the single build carries the tick's value.
WakeMx(t) == Call("wake", 0, 0, "lock", t, 0)

\* stopWaker: receive on c.sleep.  pick is the branch the waker goroutine's
\* select takes when both the tick and the interrupt are ready.
stopWaker(M, pick) ==
    CASE M.w.waker.st = "nil" -> M
      [] M.w.waker.st = "armed" -> [M EXCEPT !.w.waker = IdleTimer]
      [] M.w.waker.st = "tick" ->
            IF pick = "recv"
            THEN [M EXCEPT !.w.waker = IdleTimer,
                           !.spawn = @ \cup {WakeMx(M.w.waker.at)}]
            ELSE [M EXCEPT !.w.waker = IdleTimer]
      [] OTHER -> M

resetWaker(M, dirty, pick, r) ==
    IF ~M.c.active \/ M.c.scale = 0
    THEN stopWaker(M, pick)
    ELSE LET next == peek(M.w.queue)
         IN IF next = 0
            THEN stopWaker(M, pick)
            ELSE IF ~dirty /\ M.w.waker.st # "nil" /\ M.t[next].when = M.w.wakeAt
                 THEN M
                 ELSE LET M1 == stopWaker([M EXCEPT !.w.wakeAt = M.t[next].when], pick)
                          dt == SecondsDiv(M.t[next].when - M.c.now, M.c.scale)
                      IN [M1 EXCEPT !.w.waker = [st |-> "armed", at |-> r + dt]]

\* Variant of checkSchedule that cancels the reference timer when it is done.
checkScheduleMx_stop(M, by, pick, r) == stopWaker(drain(M, M.c.now, by), pick)

checkScheduleMx(M, by, pick, r) == resetWaker(drain(M, M.c.now, by), FALSE, pick, r)

\* ------------------------------------------------------------ initial state
NoTimer == [when |-> 0, period |-> 0, index |-> -1, kind |-> "none", s |-> 0]

\* The value active returned by Timer.Stop or Timer.Reset on handle i.
Ret(op, i, active) == [op |-> op, i |-> i, active |-> active]

NoRet == Ret("none", 0, FALSE)

\* Ticker.Stop and Ticker.Reset return nothing.
Returns(t, op, i, active, old) ==
    IF t[i].kind \in {"timer", "func"} THEN Ret(op, i, active) ELSE old

\* What a non-blocking receive on a handle's channel finds: a value, the
\* channel empty (the default branch), or the channel closed (the zero
\* value).
Got(st, v) == [st |-> st, v |-> v]

NoGot == Got("none", 0)


\* What a caller sees of the clock at Seen.r on the reference clock: Now(),
\* Scale(), Active(), the when of every pending event, and of every waker
\* the queue, wakeAt and the reference timer.
SeenAt(r, cl, t, w) ==
    [r      |-> r,
     now    |-> nowLocal(cl, r),
     scale  |-> cl.scale,
     active |-> cl.active,
     when   |-> [i \in Timers |-> IF Pending(t, i) THEN t[i].when ELSE Never],
     queue  |-> [v \in Wakers |-> w[v].queue],
     wakeAt |-> [v \in Wakers |-> w[v].wakeAt],
     waker  |-> [v \in Wakers |-> w[v].waker]]

NoSeen ==
    SeenAt(-1, [scale |-> 0, active |-> FALSE, now |-> Never, rNow |-> -1],
           [i \in Timers |-> NoTimer],
           [v \in Wakers |-> [queue |-> <<>>, waker |-> NilTimer, wakeAt |-> 0]])

NoObs ==
    [fired    |-> [i \in Timers |-> 0],      \* times the fire action ran
     shots    |-> [i \in Timers |-> 0],      \* of them, since the handle was last armed
     lastFire |-> 0,                         \* local time passed to the latest fire
     lastBy   |-> "none",                    \* what ran the latest fire
     lastRun  |-> FALSE,                     \* the clock was runnable at the latest fire
     lastNow  |-> Never,                     \* the latest value Now() returned
     over     |-> [i \in Timers |-> FALSE],  \* overtaken by a later event
     ooo      |-> FALSE,                     \* an overtaken event has fired
     stopped  |-> [i \in Timers |-> FALSE],  \* Stop returned true, no Reset since
     ret      |-> NoRet,                     \* what the latest Timer.Stop / Reset returned
     got      |-> NoGot,                     \* what the latest receive found
     panic    |-> "none",                    \* the method that panicked last
     nextAt   |-> NoGot,                     \* what the latest NextAt returned
     noop     |-> {},                        \* the methods that returned having done nothing
     ran      |-> [i \in Timers |-> 0],      \* times the function of AfterFunc was started
     seen     |-> NoSeen,                    \* what the caller saw when it last looked
     backward |-> FALSE]                     \* local time was set backwards

\* NewClock(ref, at, scale): inactive, synchronised to ref.Now(); every
\* shard is put in the pool.  mocktime creates its clocks with scale 1.0.
InitScale == 1

\* The fields of a new clock, whichever build it is.
NewClock ==
    /\ rnow = 0
    /\ c = [scale |-> InitScale, active |-> FALSE, now |-> 0, rNow |-> 0]
    /\ wk = [w \in Wakers |-> [queue |-> <<>>, waker |-> NilTimer, wakeAt |-> 0]]
    /\ pool = IF build = "sharded" THEN <<0, 1, 2, 3>> ELSE <<>>
    /\ tm = [i \in Timers |-> NoTimer]
    /\ ch = [i \in Timers |-> <<>>]
    /\ calls = {}
    /\ gos = {}
    /\ obs = NoObs
    /\ nops = 0

Init == build \in Builds /\ NewClock

Mk(w) == [c |-> c, w |-> wk[w], t |-> tm, ch |-> ch, obs |-> obs, spawn |-> {}]

\* The handler returns: its machine record becomes the state; ended is the
\* set of calls that end with it.
Done(M, w, ended) ==
    /\ c' = M.c
    /\ wk' = [wk EXCEPT ![w] = M.w]
    /\ tm' = M.t
    /\ ch' = M.ch
    /\ obs' = M.obs
    /\ calls' = (calls \ ended) \cup M.spawn

Picks == {"recv", "intr"}

\* Set is called with a time near the current one, before or after it.
SetTargets == {t \in 0..MaxLocal : t - c.now \in (-1)..MaxD}

\* The least handle not yet created.
Fresh(i) == tm[i].kind = "none" /\ \A j \in Timers : j < i => tm[j].kind # "none"

\* ------------------------------------------------------- reference clock
\* The reference clock advances by one unit.
Tick ==
    /\ rnow < MaxRef
    /\ nowLocal(c, rnow + 1) \in 0..MaxLocal
    /\ rnow' = rnow + 1
    /\ UNCHANGED <<build, c, wk, pool, tm, ch, calls, gos, obs>>

\* single build: the reference timer fires, the value goes into its channel.
MxRefFire ==
    /\ build = "single"
    /\ wk[0].waker.st = "armed"
    /\ rnow >= wk[0].waker.at
    /\ Cardinality(WakeCalls(0)) < MaxWake
    /\ wk' = [wk EXCEPT ![0].waker = [st |-> "tick", at |-> rnow]]
    /\ UNCHANGED <<build, rnow, c, pool, tm, ch, calls, gos, obs>>

\* Variant of the waker goroutine that takes the tick, starts wake(t) and
\* ends without close(sleep).
MxRecv_noclose ==
    /\ build = "single"
    /\ wk[0].waker.st = "tick"
    /\ wk' = [wk EXCEPT ![0].waker = [st |-> "taken", at |-> 0]]
    /\ calls' = calls \cup {WakeMx(wk[0].waker.at)}
    /\ UNCHANGED <<build, rnow, c, pool, tm, ch, gos, obs>>

\* single build: the waker goroutine receives the tick and starts wake(t).
MxRecv ==
    /\ build = "single"
    /\ wk[0].waker.st = "tick"
    /\ wk' = [wk EXCEPT ![0].waker = IdleTimer]
    /\ calls' = calls \cup {WakeMx(wk[0].waker.at)}
    /\ UNCHANGED <<build, rnow, c, pool, tm, ch, gos, obs>>

\* ------------------------------------------------- single build: operations
MxWake(k) ==
    /\ build = "single"
    /\ k.op = "wake"
    /\ \E pick \in Picks :
          LET c1 == IF k.r > c.rNow THEN advanceRefMx(c, k.r) ELSE c
              M1 == [Mk(0) EXCEPT !.c = c1]
          IN Done(checkScheduleMx(M1, "wake", pick, rnow), 0, {k})
    /\ UNCHANGED <<build, rnow, pool, gos>>

\* Variant of Start that never reports a change of the setting to resetWaker.
MxStart_clean ==
    /\ build = "single"
    /\ \E pick \in Picks :
          LET c1 == advanceRefMx(c, rnow)
              M1 == [Mk(0) EXCEPT !.c = [c1 EXCEPT !.active = TRUE]]
          IN Done(resetWaker(M1, FALSE, pick, rnow), 0, {})
    /\ UNCHANGED <<build, rnow, pool, gos>>

MxStart ==
    /\ build = "single"
    /\ \E pick \in Picks :
          LET c1 == advanceRefMx(c, rnow)
              dirty == ~c1.active
              M1 == [Mk(0) EXCEPT !.c = [c1 EXCEPT !.active = TRUE]]
          IN Done(resetWaker(M1, dirty, pick, rnow), 0, {})
    /\ UNCHANGED <<build, rnow, pool, gos>>

MxStop ==
    /\ build = "single"
    /\ \E pick \in Picks :
          LET c1 == advanceRefMx(c, rnow)
              dirty == c1.active
              M1 == [Mk(0) EXCEPT !.c = [c1 EXCEPT !.active = FALSE]]
          IN Done(resetWaker(M1, dirty, pick, rnow), 0, {})
    /\ UNCHANGED <<build, rnow, pool, gos>>

\* Variant of SetScale that always reports a change of the setting.
MxSetScale_dirty(s) ==
    /\ build = "single"
    /\ \E pick \in Picks :
          LET c1 == advanceRefMx(c, rnow)
              M1 == [Mk(0) EXCEPT !.c = [c1 EXCEPT !.scale = s]]
          IN Done(resetWaker(M1, TRUE, pick, rnow), 0, {})
    /\ UNCHANGED <<build, rnow, pool, gos>>

MxSetScale(s) ==
    /\ build = "single"
    /\ \E pick \in Picks :
          LET c1 == advanceRefMx(c, rnow)
              dirty == c1.scale # s
              M1 == [Mk(0) EXCEPT !.c = [c1 EXCEPT !.scale = s]]
          IN Done(resetWaker(M1, dirty, pick, rnow), 0, {})
    /\ UNCHANGED <<build, rnow, pool, gos>>

\* Variant of Set that sets the local time and keeps the reference time of
\* the sync point.
MxSet_stale(t) ==
    /\ build = "single"
    /\ \E pick \in Picks :
          LET M1 == [Mk(0) EXCEPT !.c = [c EXCEPT !.now = t],
                                  !.obs.backward = @ \/ t < LocalNow]
          IN Done(checkScheduleMx(M1, "Set", pick, rnow), 0, {})
    /\ UNCHANGED <<build, rnow, pool, gos>>

MxSet(t) ==
    /\ build = "single"
    /\ \E pick \in Picks :
          LET M1 == [Mk(0) EXCEPT !.c = [c EXCEPT !.now = t, !.rNow = rnow],
                                  !.obs.backward = @ \/ t < LocalNow]
          IN Done(checkScheduleMx(M1, "Set", pick, rnow), 0, {})
    /\ UNCHANGED <<build, rnow, pool, gos>>

\* Step(d), made while it leaves local time at or below lim.
MxStepUpTo(d, lim) ==
    /\ build = "single"
    /\ nowLocal(c, rnow) + d <= lim
    /\ \E pick \in Picks :
          LET c1 == advanceRefMx(c, rnow)
              M1 == [Mk(0) EXCEPT !.c = [c1 EXCEPT !.now = c1.now + d],
                                  !.obs.backward = @ \/ d < 0]
          IN Done(checkScheduleMx(M1, "Step", pick, rnow), 0, {})
    /\ UNCHANGED <<build, rnow, pool, gos>>

MxStep(d) == MxStepUpTo(d, MaxLocal)

MxNow ==
    /\ build = "single"
    /\ c' = advanceRefMx(c, rnow)
    /\ obs' = [obs EXCEPT !.lastNow = c'.now]
    /\ UNCHANGED <<build, rnow, wk, pool, tm, ch, calls, gos>>

\* NewTimer, NewTicker and AfterFunc differ in the record they schedule.
MxCreate(i, d, kind) ==
    /\ build = "single"
    /\ Fresh(i)
    /\ \E pick \in Picks :
          LET c1 == advanceRefMx(c, rnow)
              rec == [when |-> c1.now + d,
                      period |-> IF kind = "ticker" THEN d ELSE 0,
                      index |-> -1, kind |-> kind, s |-> 0]
              H1 == schedule([q |-> wk[0].queue, t |-> [tm EXCEPT ![i] = rec]], i)
              M1 == [Mk(0) EXCEPT !.c = c1, !.t = H1.t, !.w.queue = H1.q]
          IN Done(resetWaker(M1, FALSE, pick, rnow), 0, {})
    /\ UNCHANGED <<build, rnow, pool, gos>>

MxNewTimer(i, d) == MxCreate(i, d, "timer")

MxNewTicker(i, d) == d > 0 /\ MxCreate(i, d, "ticker")

MxAfterFunc(i, d) == MxCreate(i, d, "func")

\* Variant of Timer.Stop that reports the timer active and leaves it queued.
MxHandleStop_keep(i) ==
    /\ build = "single"
    /\ \E pick \in Picks :
          LET active == tm[i].index # -1
              M1 == [Mk(0) EXCEPT !.obs.stopped[i] = @ \/ active,
                                  !.obs.ret = Returns(tm, "Stop", i, active, @),
                                  !.obs.over[i] = FALSE]
          IN Done(resetWaker(M1, FALSE, pick, rnow), 0, {})
    /\ UNCHANGED <<build, rnow, pool, gos>>

\* Variant of Stop that closes the channel of the handle.
MxHandleStop_close(i) ==
    /\ build = "single"
    /\ \E pick \in Picks :
          LET H1 == unschedule([q |-> wk[0].queue, t |-> tm], i)
              M1 == [Mk(0) EXCEPT !.t = H1.t, !.w.queue = H1.q,
                                  !.ch[i] = Closed,
                                  !.obs.stopped[i] = TRUE]
          IN Done(resetWaker(M1, FALSE, pick, rnow), 0, {})
    /\ UNCHANGED <<build, rnow, pool, gos>>

\* Timer.Stop and Ticker.Stop
MxHandleStop(i) ==
    /\ build = "single"
    /\ \E pick \in Picks :
          LET active == tm[i].index # -1
              H1 == unschedule([q |-> wk[0].queue, t |-> tm], i)
              M1 == [Mk(0) EXCEPT !.t = H1.t, !.w.queue = H1.q,
                                  !.obs.stopped[i] = @ \/ active,
                                  !.obs.ret = Returns(tm, "Stop", i, active, @),
                                  !.obs.over[i] = FALSE]
          IN Done(resetWaker(M1, FALSE, pick, rnow), 0, {})
    /\ UNCHANGED <<build, rnow, pool, gos>>

MxTimerStop(i) == tm[i].kind \in {"timer", "func"} /\ MxHandleStop(i)

MxTickerStop(i) == tm[i].kind = "ticker" /\ MxHandleStop(i)

\* Timer.Reset and Ticker.Reset first read t.s.Now(), an operation of its
\* own under the lock, and take the lock again to reschedule.
MxResetCall(i, d) ==
    /\ build = "single"
    /\ tm[i].kind # "none"
    /\ tm[i].kind = "ticker" => d > 0
    /\ obs.fired[i] < MaxFires
    /\ Cardinality(UserCalls) < MaxCalls
    /\ c' = advanceRefMx(c, rnow)
    /\ calls' = calls \cup {Call("Reset", i, d, "lock", rnow, c'.now)}
    /\ UNCHANGED <<build, rnow, wk, pool, tm, ch, gos, obs>>

\* Variant of Reset that leaves the period of a ticker as it was.
MxReset_period(k) ==
    /\ build = "single"
    /\ k.op = "Reset"
    /\ \E pick \in Picks :
          LET i  == k.i
              H1 == reschedule([q |-> wk[0].queue,
                                t |-> [tm EXCEPT ![i].when = k.now + k.d]], i)
              M1 == [Mk(0) EXCEPT !.t = H1.t, !.w.queue = H1.q,
                                  !.obs.stopped[i] = FALSE, !.obs.shots[i] = 0]
          IN Done(resetWaker(M1, FALSE, pick, rnow), 0, {k})
    /\ UNCHANGED <<build, rnow, pool, gos>>

MxReset(k) ==
    /\ build = "single"
    /\ k.op = "Reset"
    /\ \E pick \in Picks :
          LET i  == k.i
              t1 == [tm EXCEPT ![i].when = k.now + k.d,
                               ![i].period = IF tm[i].kind = "ticker" THEN k.d ELSE @]
              H1 == reschedule([q |-> wk[0].queue, t |-> t1], i)
              M1 == [Mk(0) EXCEPT !.t = H1.t, !.w.queue = H1.q,
                                  !.obs.stopped[i] = FALSE, !.obs.shots[i] = 0,
                                  !.obs.ret = Returns(tm, "Reset", i, tm[i].index # -1, @),
                                  !.obs.over[i] = FALSE]
          IN Done(resetWaker(M1, FALSE, pick, rnow), 0, {k})
    /\ UNCHANGED <<build, rnow, pool, gos>>

MxTimerReset(k) == k.op = "Reset" /\ tm[k.i].kind \in {"timer", "func"} /\ MxReset(k)

MxTickerReset(k) == k.op = "Reset" /\ tm[k.i].kind = "ticker" /\ MxReset(k)

\* ----------------------------------------------------- sharded build: waker
\* waker.stop: Stop the reference timer if there is one.
waker_stop(M) ==
    IF M.w.waker.st = "nil" THEN M ELSE [M EXCEPT !.w.waker = IdleTimer]

\* wake, the callback the reference clock runs for waker w: it starts by
\* reading ref.Now() inside w.Now().
WakeSh(w) == Call("wake", w, 0, "sync", rnow, 0)

\* waker.reset(now, dirty), under w's lock; r is the reference time at
\* which AfterFunc or Reset arms the reference timer.
waker_reset(M, now, dirty, r) ==
    IF ~M.c.active \/ M.c.scale = 0
    THEN waker_stop(M)
    ELSE LET next == peek(M.w.queue)
         IN IF next = 0
            THEN waker_stop(M)
            ELSE IF ~dirty /\ M.w.waker.st # "nil" /\ M.t[next].when = M.w.wakeAt
                 THEN M
                 ELSE LET dt == SecondsDiv(M.t[next].when - now, M.c.scale)
                      IN [M EXCEPT !.w.wakeAt = M.t[next].when,
                                   !.w.waker = [st |-> "armed", at |-> r + dt]]

waker_checkSchedule(M, now, by, r) == waker_reset(drain(M, now, by), now, FALSE, r)

\* sharded build: the reference timer of waker w fires and the reference
\* clock starts the callback w.wake.
ShRefFire(w) ==
    /\ build = "sharded"
    /\ wk[w].waker.st = "armed"
    /\ rnow >= wk[w].waker.at
    /\ Cardinality(WakeCalls(w)) < MaxWake
    /\ wk' = [wk EXCEPT ![w].waker = IdleTimer]
    /\ calls' = calls \cup {WakeSh(w)}
    /\ UNCHANGED <<build, rnow, c, pool, tm, ch, gos, obs>>

\* ---------------------------------------------- sharded build: goroutines
Go(kind, w, now, dirty, by) ==
    [kind |-> kind, w |-> w, now |-> now, dirty |-> dirty, by |-> by]

\* A waker is live if a handle is bound to it or a handle still to be created
\* will take it from the pool.  The queue of any other waker is empty and
\* stays empty and its reference timer is never armed, so reset and
\* checkSchedule change nothing on it whenever they run: those goroutines
\* are left out.
Live(w) ==
    \/ \E i \in Timers : tm[i].kind # "none" /\ tm[i].s = w
    \/ \E p \in 1..Min(Len(pool), Cardinality({i \in Timers : tm[i].kind = "none"})) :
          pool[p] = w

\* resetWakers(dirty) and checkWakers(): one goroutine per waker, each with
\* the c.now of the caller.
resetWakers(cl, dirty) ==
    {Go("reset", w, cl.now, dirty, "none") : w \in {v \in Wakers : Live(v)}}

checkWakers(cl, by) ==
    {Go("check", w, cl.now, FALSE, by) : w \in {v \in Wakers : Live(v)}}

\* A new batch starts while at most MaxGo earlier goroutines are pending.
Spawn(batch) ==
    /\ Cardinality(gos) <= MaxGo
    /\ batch \cap gos = {}
    /\ gos' = gos \cup batch

ShGoReset(g) ==
    /\ build = "sharded"
    /\ g.kind = "reset"
    /\ gos' = gos \ {g}
    /\ Done(waker_reset(Mk(g.w), g.now, g.dirty, rnow), g.w, {})
    /\ UNCHANGED <<build, rnow, pool>>

ShGoCheck(g) ==
    /\ build = "sharded"
    /\ g.kind = "check"
    /\ gos' = gos \ {g}
    /\ Done(waker_checkSchedule(Mk(g.w), g.now, g.by, rnow), g.w, {})
    /\ UNCHANGED <<build, rnow, pool>>

\* ------------------------------------------------ sharded build: operations
\* Variant of Start that sets active without syncing first.
ShStart_nosync ==
    /\ build = "sharded"
    /\ c' = [c EXCEPT !.active = TRUE]
    /\ Spawn(resetWakers(c, ~c.active))
    /\ UNCHANGED <<build, rnow, wk, pool, tm, ch, calls, obs>>

ShStart ==
    /\ build = "sharded"
    /\ LET c1 == advanceRef(c, rnow)
       IN /\ c' = [c1 EXCEPT !.active = TRUE]
          /\ Spawn(resetWakers(c1, ~c1.active))
    /\ UNCHANGED <<build, rnow, wk, pool, tm, ch, calls, obs>>

ShStop ==
    /\ build = "sharded"
    /\ LET c1 == advanceRef(c, rnow)
       IN /\ c' = [c1 EXCEPT !.active = FALSE]
          /\ Spawn(resetWakers(c1, c1.active))
    /\ UNCHANGED <<build, rnow, wk, pool, tm, ch, calls, obs>>

ShSetScale(s) ==
    /\ build = "sharded"
    /\ LET c1 == advanceRef(c, rnow)
       IN /\ c' = [c1 EXCEPT !.scale = s]
          /\ Spawn(resetWakers(c1, c1.scale # s))
    /\ UNCHANGED <<build, rnow, wk, pool, tm, ch, calls, obs>>

ShSet(t) ==
    /\ build = "sharded"
    /\ c' = [c EXCEPT !.now = t, !.rNow = rnow]
    /\ obs' = [obs EXCEPT !.backward = @ \/ t < LocalNow]
    /\ Spawn(checkWakers(c', "Set"))
    /\ UNCHANGED <<build, rnow, wk, pool, tm, ch, calls>>

ShStepUpTo(d, lim) ==
    /\ build = "sharded"
    /\ nowLocal(c, rnow) + d <= lim
    /\ LET c1 == advanceRef(c, rnow)
       IN c' = [c1 EXCEPT !.now = c1.now + d]
    /\ obs' = [obs EXCEPT !.backward = @ \/ d < 0]
    /\ Spawn(checkWakers(c', "Step"))
    /\ UNCHANGED <<build, rnow, wk, pool, tm, ch, calls>>

ShStep(d) == ShStepUpTo(d, MaxLocal)

\* Every other operation starts with now := c.Now(): it reads ref.Now()
\* and then, under the read lock, computes nowLocal.
ShCall(op, i, d) ==
    /\ build = "sharded"
    /\ Cardinality(UserCalls) < MaxCalls
    /\ calls' = calls \cup {Call(op, i, d, "sync", rnow, 0)}
    /\ UNCHANGED <<build, rnow, c, wk, pool, tm, ch, gos, obs>>

ShNowCall == ShCall("Now", 0, 0)

ShNewTimerCall(i, d) == Fresh(i) /\ ShCall("NewTimer", i, d)

ShNewTickerCall(i, d) == Fresh(i) /\ d > 0 /\ ShCall("NewTicker", i, d)

ShAfterFuncCall(i, d) == Fresh(i) /\ ShCall("AfterFunc", i, d)

ShStopCall(i) == tm[i].kind # "none" /\ ShCall("Stop", i, 0)

ShResetCall(i, d) ==
    /\ tm[i].kind # "none"
    /\ tm[i].kind = "ticker" => d > 0
    /\ obs.fired[i] < MaxFires
    /\ ShCall("Reset", i, d)

\* Clock.Now returns to the caller of Now.
ShNow(k) ==
    /\ build = "sharded"
    /\ k.op = "Now"
    /\ calls' = calls \ {k}
    /\ obs' = [obs EXCEPT !.lastNow = nowLocal(c, k.r)]
    /\ UNCHANGED <<build, rnow, c, wk, pool, tm, ch, gos>>

\* Clock.Now returns inside another operation, which goes on to the lock.
ShSync(k) ==
    /\ build = "sharded"
    /\ k.op # "Now"
    /\ k.pc = "sync"
    /\ calls' = (calls \ {k}) \cup {[k EXCEPT !.pc = "lock", !.now = nowLocal(c, k.r)]}
    /\ UNCHANGED <<build, rnow, c, wk, pool, tm, ch, gos, obs>>

KindOf(op) ==
    CASE op = "NewTimer" -> "timer"
      [] op = "NewTicker" -> "ticker"
      [] OTHER -> "func"

\* NewTimer, NewTicker, AfterFunc: take a waker from the pool, schedule,
\* reset the waker if the new timer is the head, give the waker back.
ShCreate(k) ==
    /\ build = "sharded"
    /\ k.op \in {"NewTimer", "NewTicker", "AfterFunc"}
    /\ k.pc = "lock"
    /\ tm[k.i].kind = "none"
    /\ LET w   == Head(pool)
           rec == [when |-> k.now + k.d,
                   period |-> IF k.op = "NewTicker" THEN k.d ELSE 0,
                   index |-> -1, kind |-> KindOf(k.op), s |-> w]
           H1  == schedule([q |-> wk[w].queue, t |-> [tm EXCEPT ![k.i] = rec]], k.i)
           M1  == [Mk(w) EXCEPT !.t = H1.t, !.w.queue = H1.q]
       IN /\ Done(IF H1.t[k.i].index = 0
                  THEN waker_reset(M1, k.now, FALSE, rnow) ELSE M1, w, {k})
          /\ pool' = Tail(pool) \o <<w>>
    /\ UNCHANGED <<build, rnow, gos>>

ShNewTimer(k) == k.op = "NewTimer" /\ ShCreate(k)

ShNewTicker(k) == k.op = "NewTicker" /\ ShCreate(k)

ShAfterFunc(k) == k.op = "AfterFunc" /\ ShCreate(k)

\* Timer.Stop and Ticker.Stop
ShHandleStop(k) ==
    /\ build = "sharded"
    /\ k.op = "Stop"
    /\ k.pc = "lock"
    /\ LET i      == k.i
           w      == tm[i].s
           active == tm[i].index # -1
           isNext == tm[i].index = 0
           H1     == unschedule([q |-> wk[w].queue, t |-> tm], i)
           M1     == [Mk(w) EXCEPT !.t = H1.t, !.w.queue = H1.q,
                                   !.obs.stopped[i] = @ \/ active,
                                   !.obs.ret = Returns(tm, "Stop", i, active, @),
                                   !.obs.over[i] = FALSE]
       IN Done(IF isNext THEN waker_reset(M1, k.now, FALSE, rnow) ELSE M1, w, {k})
    /\ UNCHANGED <<build, rnow, pool, gos>>

ShTimerStop(k) == k.op = "Stop" /\ tm[k.i].kind \in {"timer", "func"} /\ ShHandleStop(k)

ShTickerStop(k) == k.op = "Stop" /\ tm[k.i].kind = "ticker" /\ ShHandleStop(k)

\* Timer.Reset and Ticker.Reset
ShReset(k) ==
    /\ build = "sharded"
    /\ k.op = "Reset"
    /\ k.pc = "lock"
    /\ LET i      == k.i
           w      == tm[i].s
           t1     == [tm EXCEPT ![i].when = k.now + k.d,
                                ![i].period = IF tm[i].kind = "ticker" THEN k.d ELSE @]
           isNext == tm[i].index = 0
           H1     == reschedule([q |-> wk[w].queue, t |-> t1], i)
           M1     == [Mk(w) EXCEPT !.t = H1.t, !.w.queue = H1.q,
                                   !.obs.stopped[i] = FALSE, !.obs.shots[i] = 0,
                                   !.obs.ret = Returns(tm, "Reset", i, tm[i].index # -1, @),
                                   !.obs.over[i] = FALSE]
       IN Done(IF isNext \/ H1.t[i].index = 0
               THEN waker_reset(M1, k.now, FALSE, rnow) ELSE M1, w, {k})
    /\ UNCHANGED <<build, rnow, pool, gos>>

ShTimerReset(k) == k.op = "Reset" /\ tm[k.i].kind \in {"timer", "func"} /\ ShReset(k)

ShTickerReset(k) == k.op = "Reset" /\ tm[k.i].kind = "ticker" /\ ShReset(k)

\* waker.wake: now := w.Now(); lock; checkSchedule(now); unlock
ShWake(k) ==
    /\ build = "sharded"
    /\ k.op = "wake"
    /\ k.pc = "lock"
    /\ Done(waker_checkSchedule(Mk(k.i), k.now, "wake", rnow), k.i, {k})
    /\ UNCHANGED <<build, rnow, pool, gos>>

\* ------------------------------------------------------ the stepped clock
\* Package steppedtime: a clock of one queue under one mutex whose time moves
\* only by Set and Step.  It has no reference clock and no waker; it is the
\* build "stepped", with its now in c.now and its queue in wk[0].queue.
\* c.lock(): no call holds the mutex.  Every method takes it on entry and
\* releases it before it returns; none waits for anything while it holds it.
Unlocked == \A k \in calls : k.pc # "held"

\* Variant of Set that moves the clock by its argument, as Step does.
StSet_add(t) ==
    /\ build = "stepped"
    /\ Unlocked
    /\ LET M1 == [Mk(0) EXCEPT !.c.now = c.now + t, !.obs.backward = @ \/ t < 0]
       IN Done(drain(M1, c.now + t, "Set"), 0, {})
    /\ UNCHANGED <<build, rnow, pool, gos>>

StSet(t) ==
    /\ build = "stepped"
    /\ Unlocked
    /\ LET M1 == [Mk(0) EXCEPT !.c.now = t, !.obs.backward = @ \/ t < c.now]
       IN Done(drain(M1, t, "Set"), 0, {})
    /\ UNCHANGED <<build, rnow, pool, gos>>

\* Variant of Step whose fire sends on the channel with a blocking send: when
\* the head is due and its channel is full, Step waits with the mutex held.
StStepUpTo_block(d, lim) ==
    /\ build = "stepped"
    /\ Unlocked
    /\ c.now + d <= lim
    /\ LET x  == peek(wk[0].queue)
           M1 == [Mk(0) EXCEPT !.c.now = c.now + d]
       IN IF x # 0 /\ Due(tm, x, c.now + d) /\ ch[x] # <<>>
          THEN Done([M1 EXCEPT !.spawn = {Call("Step", x, d, "held", 0, 0)}], 0, {})
          ELSE Done(drain(M1, c.now + d, "Step"), 0, {})
    /\ UNCHANGED <<build, rnow, pool, gos>>

\* Now(): c.now, read under the mutex.
StNow ==
    /\ build = "stepped"
    /\ Unlocked
    /\ obs' = [obs EXCEPT !.lastNow = c.now]
    /\ UNCHANGED <<build, rnow, c, wk, pool, tm, ch, calls, gos>>

StStepUpTo(d, lim) ==
    /\ build = "stepped"
    /\ Unlocked
    /\ c.now + d <= lim
    /\ LET M1 == [Mk(0) EXCEPT !.c.now = c.now + d, !.obs.backward = @ \/ d < 0]
       IN Done(drain(M1, c.now + d, "Step"), 0, {})
    /\ UNCHANGED <<build, rnow, pool, gos>>

StStep(d) == StStepUpTo(d, MaxLocal)

StCreate(i, d, kind) ==
    /\ build = "stepped"
    /\ Unlocked
    /\ Fresh(i)
    /\ LET rec == [when |-> c.now + d,
                   period |-> IF kind = "ticker" THEN d ELSE 0,
                   index |-> -1, kind |-> kind, s |-> 0]
           H1 == schedule([q |-> wk[0].queue, t |-> [tm EXCEPT ![i] = rec]], i)
       IN Done([Mk(0) EXCEPT !.t = H1.t, !.w.queue = H1.q], 0, {})
    /\ UNCHANGED <<build, rnow, pool, gos>>

StNewTimer(i, d) == StCreate(i, d, "timer")

StNewTicker(i, d) == d > 0 /\ StCreate(i, d, "ticker")

StHandleStop(i) ==
    /\ build = "stepped"
    /\ Unlocked
    /\ LET active == tm[i].index # -1
           H1 == unschedule([q |-> wk[0].queue, t |-> tm], i)
           M1 == [Mk(0) EXCEPT !.t = H1.t, !.w.queue = H1.q,
                               !.obs.stopped[i] = @ \/ active,
                               !.obs.ret = Returns(tm, "Stop", i, active, @),
                               !.obs.over[i] = FALSE]
       IN Done(M1, 0, {})
    /\ UNCHANGED <<build, rnow, pool, gos>>

StTimerStop(i) == tm[i].kind \in {"timer", "func"} /\ StHandleStop(i)

StTickerStop(i) == tm[i].kind = "ticker" /\ StHandleStop(i)

StReset(i, d) ==
    /\ build = "stepped"
    /\ Unlocked
    /\ LET t1 == [tm EXCEPT ![i].when = c.now + d,
                            ![i].period = IF tm[i].kind = "ticker" THEN d ELSE @]
           H1 == reschedule([q |-> wk[0].queue, t |-> t1], i)
           M1 == [Mk(0) EXCEPT !.t = H1.t, !.w.queue = H1.q,
                               !.obs.stopped[i] = FALSE, !.obs.shots[i] = 0,
                               !.obs.ret = Returns(tm, "Reset", i, tm[i].index # -1, @),
                               !.obs.over[i] = FALSE]
       IN Done(M1, 0, {})
    /\ UNCHANGED <<build, rnow, pool, gos>>

StTimerReset(i, d) == tm[i].kind \in {"timer", "func"} /\ StReset(i, d)

StTickerReset(i, d) == tm[i].kind = "ticker" /\ d > 0 /\ StReset(i, d)

\* A user of a handle: select { case <-t.C(): ... default: ... }, a receive
\* that does not block.
Recv(i) ==
    /\ tm[i].kind \in {"timer", "ticker"}
    /\ ch' = [ch EXCEPT ![i] = IF ch[i] = Closed THEN Closed ELSE <<>>]
    /\ obs' = [obs EXCEPT !.got = CASE ch[i] = Closed -> Got("closed", 0)
                                     [] ch[i] = <<>> -> Got("empty", 0)
                                     [] OTHER -> Got("value", ch[i][1])]
    /\ UNCHANGED <<build, rnow, c, wk, pool, tm, calls, gos>>

\* Every clock of the repository: the two builds of the relative clock and
\* the stepped clock.
InitAll == build \in Builds \cup {"stepped"} /\ NewClock

\* ------------------------------------------------------------------ Sleep
\* The method returns at once: it has read and written no field of the
\* clock.
Returned(method) ==
    /\ obs' = [obs EXCEPT !.noop = @ \cup {method}]
    /\ UNCHANGED <<build, rnow, c, wk, pool, tm, ch, calls, gos>>

\* Variant of the event of Sleep that is due at the time of the call.
sleepTimer_now(now, d, w) ==
    [when |-> now, period |-> 0, index |-> -1, kind |-> "sleep", s |-> w]

\* The event of Sleep(d): one shot at now + d, whose f closes the channel
\* the caller then waits on.
sleepTimer(now, d, w) ==
    [when |-> now + d, period |-> 0, index |-> -1, kind |-> "sleep", s |-> w]

\* The caller of Sleep(d) waits on the channel of event i; r and now are the
\* reference and local time its call read.
Sleeper(i, d, r, now) == Call("Sleep", i, d, "wait", r, now)

MxSleep(i, d) ==
    /\ build = "single"
    /\ IF d <= 0
       THEN Returned("Sleep")
       ELSE /\ Fresh(i)
            /\ UNCHANGED <<build, rnow, pool, gos>>
            /\ \E pick \in Picks :
                  LET c1 == advanceRefMx(c, rnow)
                      H1 == schedule([q |-> wk[0].queue,
                                      t |-> [tm EXCEPT ![i] = sleepTimer(c1.now, d, 0)]], i)
                      M1 == [Mk(0) EXCEPT !.c = c1, !.t = H1.t, !.w.queue = H1.q,
                                          !.spawn = {Sleeper(i, d, rnow, c1.now)}]
                  IN Done(resetWaker(M1, FALSE, pick, rnow), 0, {})

\* sharded build: Sleep returns at once, or reads c.Now() as the other
\* operations do.
ShSleepCall(i, d) ==
    IF d <= 0
    THEN build = "sharded" /\ Returned("Sleep")
    ELSE Fresh(i) /\ ShCall("Sleep", i, d)

ShSleep(k) ==
    /\ build = "sharded"
    /\ k.op = "Sleep"
    /\ k.pc = "lock"
    /\ tm[k.i].kind = "none"
    /\ LET w  == Head(pool)
           H1 == schedule([q |-> wk[w].queue,
                           t |-> [tm EXCEPT ![k.i] = sleepTimer(k.now, k.d, w)]], k.i)
           M1 == [Mk(w) EXCEPT !.t = H1.t, !.w.queue = H1.q,
                               !.spawn = {Sleeper(k.i, k.d, k.r, k.now)}]
       IN /\ Done(IF H1.t[k.i].index = 0
                  THEN waker_reset(M1, k.now, FALSE, rnow) ELSE M1, w, {k})
          /\ pool' = Tail(pool) \o <<w>>
    /\ UNCHANGED <<build, rnow, gos>>

StSleep(i, d) ==
    /\ build = "stepped"
    /\ IF d <= 0
       THEN Returned("Sleep")
       ELSE /\ Unlocked
            /\ Fresh(i)
            /\ UNCHANGED <<build, rnow, pool, gos>>
            /\ LET H1 == schedule([q |-> wk[0].queue,
                                   t |-> [tm EXCEPT ![i] = sleepTimer(c.now, d, 0)]], i)
               IN Done([Mk(0) EXCEPT !.t = H1.t, !.w.queue = H1.q,
                                     !.spawn = {Sleeper(i, d, 0, c.now)}], 0, {})

\* <-ch: the receive of the caller of Sleep returns once the channel is
\* closed, and Sleep returns.
SleepReturn(k) ==
    /\ k.op = "Sleep"
    /\ k.pc = "wait"
    /\ ch[k.i] = Closed
    /\ calls' = calls \ {k}
    /\ UNCHANGED <<build, rnow, c, wk, pool, tm, ch, gos, obs>>

\* ------------------------------------------------------- panics and no-ops
\* panic(...): the method is left before it has read or written a field of
\* the clock; the caller recovers.
Panic(method) ==
    /\ obs' = [obs EXCEPT !.panic = method]
    /\ UNCHANGED <<build, rnow, c, wk, pool, tm, ch, calls, gos>>

\* A handle whose event record is nil: the zero value of Timer or Ticker,
\* never returned by NewTimer, AfterFunc or NewTicker.
Unlinked(i) == tm[i].kind = "none"

\* NewTicker(d), whatever d.
MxTryNewTicker(i, d) ==
    IF d <= 0 THEN build = "single" /\ Panic("NewTicker: non-positive interval") ELSE MxNewTicker(i, d)

ShTryNewTicker(i, d) ==
    IF d <= 0 THEN build = "sharded" /\ Panic("NewTicker: non-positive interval") ELSE ShNewTickerCall(i, d)

StTryNewTicker(i, d) ==
    IF d <= 0 THEN build = "stepped" /\ Panic("NewTicker: non-positive interval") ELSE StNewTicker(i, d)

\* Variant of Ticker.Reset that writes when and period before it checks d.
MxTryTickerReset_late(i, d) ==
    /\ build = "single"
    /\ IF d <= 0
       THEN /\ tm' = [tm EXCEPT ![i].when = c.now + d, ![i].period = d]
            /\ obs' = [obs EXCEPT !.panic = "Ticker.Reset: non-positive interval"]
            /\ UNCHANGED <<build, rnow, c, wk, pool, ch, calls, gos>>
       ELSE IF Unlinked(i) THEN Panic("Ticker.Reset: uninitialized")
       ELSE tm[i].kind = "ticker" /\ MxResetCall(i, d)

\* Ticker.Reset(d) on handle i, whatever d and whatever the handle.
MxTryTickerReset(i, d) ==
    /\ build = "single"
    /\ IF d <= 0 THEN Panic("Ticker.Reset: non-positive interval")
       ELSE IF Unlinked(i) THEN Panic("Ticker.Reset: uninitialized")
       ELSE tm[i].kind = "ticker" /\ MxResetCall(i, d)

ShTryTickerReset(i, d) ==
    /\ build = "sharded"
    /\ IF d <= 0 THEN Panic("Ticker.Reset: non-positive interval")
       ELSE IF Unlinked(i) THEN Panic("Ticker.Reset: uninitialized")
       ELSE tm[i].kind = "ticker" /\ ShResetCall(i, d)

StTryTickerReset(i, d) ==
    /\ build = "stepped"
    /\ IF d <= 0 THEN Panic("Ticker.Reset: non-positive interval")
       ELSE IF Unlinked(i) THEN Panic("Ticker.Reset: uninitialized")
       ELSE StTickerReset(i, d)

\* Ticker.Stop on handle i, whatever the handle.
MxTryTickerStop(i) ==
    /\ build = "single"
    /\ IF Unlinked(i) THEN Panic("Ticker.Stop: uninitialized") ELSE MxTickerStop(i)

ShTryTickerStop(i) ==
    /\ build = "sharded"
    /\ IF Unlinked(i) THEN Panic("Ticker.Stop: uninitialized")
       ELSE tm[i].kind = "ticker" /\ ShStopCall(i)

StTryTickerStop(i) ==
    /\ build = "stepped"
    /\ IF Unlinked(i) THEN Panic("Ticker.Stop: uninitialized") ELSE StTickerStop(i)

\* Timer.Reset(d) on handle i, whatever the handle.
MxTryTimerReset(i, d) ==
    /\ build = "single"
    /\ IF Unlinked(i) THEN Panic("Timer.Reset: uninitialized")
       ELSE tm[i].kind \in {"timer", "func"} /\ MxResetCall(i, d)

ShTryTimerReset(i, d) ==
    /\ build = "sharded"
    /\ IF Unlinked(i) THEN Panic("Timer.Reset: uninitialized")
       ELSE tm[i].kind \in {"timer", "func"} /\ ShResetCall(i, d)

StTryTimerReset(i, d) ==
    /\ build = "stepped"
    /\ IF Unlinked(i) THEN Panic("Timer.Reset: uninitialized") ELSE StTimerReset(i, d)

\* Variant of Timer.Stop that reads t.s.Now(), which syncs the clock, before
\* it looks at the handle.
MxTryTimerStop_sync(i) ==
    /\ build = "single"
    /\ IF Unlinked(i)
       THEN /\ c' = advanceRefMx(c, rnow)
            /\ obs' = [obs EXCEPT !.panic = "Timer.Stop: uninitialized"]
            /\ UNCHANGED <<build, rnow, wk, pool, tm, ch, calls, gos>>
       ELSE MxTimerStop(i)

\* Timer.Stop on handle i, whatever the handle.
MxTryTimerStop(i) ==
    /\ build = "single"
    /\ IF Unlinked(i) THEN Panic("Timer.Stop: uninitialized") ELSE MxTimerStop(i)

ShTryTimerStop(i) ==
    /\ build = "sharded"
    /\ IF Unlinked(i) THEN Panic("Timer.Stop: uninitialized")
       ELSE tm[i].kind \in {"timer", "func"} /\ ShStopCall(i)

StTryTimerStop(i) ==
    /\ build = "stepped"
    /\ IF Unlinked(i) THEN Panic("Timer.Stop: uninitialized") ELSE StTimerStop(i)

\* Variant of Tick that makes the ticker before it looks at d.
MxClockTick_make(i, d) == MxCreate(i, d, "ticker")

\* Clock.Tick(d): nil, or the channel of a new ticker.
MxClockTick(i, d) == IF d <= 0 THEN build = "single" /\ Returned("Tick") ELSE MxNewTicker(i, d)

ShClockTick(i, d) == IF d <= 0 THEN build = "sharded" /\ Returned("Tick") ELSE ShNewTickerCall(i, d)

StClockTick(i, d) == IF d <= 0 THEN build = "stepped" /\ Returned("Tick") ELSE StNewTicker(i, d)

\* ----------------------------------------------------------------- NextAt
\* The zero value of the time type.  The relative clock is instantiated with
\* mocktime.Time, whose zero is an instant long before any time the clock is
\* created at: it is below every local time of a behaviour.
ZeroTime == Never

\* The loop body of NextAt in the sharded build,
\*   if next != nil && when.IsZero() || when.After(next.when) { when = next.when }
\* which Go reads as (next != nil && when.IsZero()) || when.After(next.when):
\* when the first operand is false the second reads next.when, a nil pointer
\* dereference if the queue of the waker is empty.
nextAtIter(t, when, next) ==
    IF next # 0 /\ when = ZeroTime
    THEN Got("value", t[next].when)
    ELSE IF next = 0
         THEN Got("panic", 0)
         ELSE IF when > t[next].when
              THEN Got("value", t[next].when)
              ELSE Got("value", when)

\* The number of events pending on the clock.
NPending == Cardinality({i \in Timers : Pending(tm, i)})

\* NextAt of the sharded build is called: when is the zero value, the loop
\* is at waker 0.  It does not read c.Now().  The call record notes in d how
\* many events are pending at the call.
ShNextAtCall ==
    /\ build = "sharded"
    /\ Cardinality(UserCalls) < MaxCalls
    /\ calls' = calls \cup {Call("NextAt", 0, NPending, "lock", rnow, ZeroTime)}
    /\ UNCHANGED <<build, rnow, c, wk, pool, tm, ch, gos, obs>>

\* One turn of the loop, under the read lock of waker k.i; after the last
\* waker NextAt returns when.
ShNextAt(k) ==
    /\ build = "sharded"
    /\ k.op = "NextAt"
    /\ LET res == nextAtIter(tm, k.now, peek(wk[k.i].queue))
       IN IF res.st = "panic"
          THEN /\ calls' = calls \ {k}
               /\ obs' = [obs EXCEPT !.panic = "NextAt: nil pointer dereference"]
          ELSE IF k.i = nwakers - 1
               THEN /\ calls' = calls \ {k}
                    /\ obs' = [obs EXCEPT !.nextAt = res]
               ELSE /\ calls' = (calls \ {k}) \cup {[k EXCEPT !.i = @ + 1, !.now = res.v]}
                    /\ obs' = obs
    /\ UNCHANGED <<build, rnow, c, wk, pool, tm, ch, gos>>

\* NextAt of the single build: the when of the head of the queue, or the
\* zero value.
MxNextAt ==
    /\ build = "single"
    /\ LET next == peek(wk[0].queue)
       IN obs' = [obs EXCEPT !.nextAt =
                     Got("value", IF next = 0 THEN ZeroTime ELSE tm[next].when)]
    /\ UNCHANGED <<build, rnow, c, wk, pool, tm, ch, calls, gos>>

\* ------------------------------------------------- the function of AfterFunc
StAfterFunc(i, d) == StCreate(i, d, "func")

\* The event of AfterFunc is func(T) { go f() }: each fire starts a goroutine
\* and returns.  The goroutines started and not yet scheduled are the fires
\* of the handle that obs.ran has not counted.  FStart is the goroutine's
\* first step: f begins, on no lock of the clock.
FStart(i) ==
    /\ tm[i].kind = "func"
    /\ obs.ran[i] < obs.fired[i]
    /\ obs' = [obs EXCEPT !.ran[i] = @ + 1]
    /\ calls' = calls \cup {Call("f", i, 0, "run", 0, 0)}
    /\ UNCHANGED <<build, rnow, c, wk, pool, tm, ch, gos>>

\* f is running: it may call any method of the clock.
FRunning == \E k \in calls : k.op = "f"

\* A call made by f, one of the calls of the behaviour.
ByF == nops < MaxOps /\ nops' = nops + 1 /\ FRunning

\* f returns, after the calls it made.
FEnd(k) ==
    /\ k.op = "f"
    /\ UserCalls = {}
    /\ calls' = calls \ {k}
    /\ UNCHANGED <<build, rnow, c, wk, pool, tm, ch, gos, obs>>

\* ---------------------------------------------------- a caller that looks
\* The caller reads Now(), Scale() and Active() and notes the scheduler's
\* state, at one reference instant and with nothing else at work.
Observe ==
    /\ UserCalls = {}
    /\ gos = {}
    /\ obs' = [obs EXCEPT !.seen = SeenAt(rnow, c, tm, wk)]
    /\ UNCHANGED <<build, rnow, c, wk, pool, tm, ch, calls, gos>>

\* ------------------------------------------------------------ Fastforward
\* mocktime.Clock.Fastforward:
\*   active := c.Active(); c.Stop()
\*   for when := c.NextAt(); !when.IsZero(); when = c.NextAt() {
\*       dt := c.Until(when); if dt < 0 { dt = 0 }; c.Step(dt); runtime.Gosched() }
\*   if active { c.Start() }
\* Each call it makes is a step of its own.  Its call record keeps active in
\* i (1 or 0), the when that NextAt returned in now and dt in d.
FfCall(active) == Call("Fastforward", IF active THEN 1 ELSE 0, 0, "stop", 0, ZeroTime)

\* c.Active(), a locked read.
MxFfCall ==
    /\ build = "single"
    /\ calls' = calls \cup {FfCall(c.active)}
    /\ UNCHANGED <<build, rnow, c, wk, pool, tm, ch, gos, obs>>

\* c.Stop()
MxFfStop(k) ==
    /\ build = "single"
    /\ k.op = "Fastforward"
    /\ k.pc = "stop"
    /\ \E pick \in Picks :
          LET c1 == advanceRefMx(c, rnow)
              dirty == c1.active
              M1 == [Mk(0) EXCEPT !.c = [c1 EXCEPT !.active = FALSE],
                                  !.spawn = {[k EXCEPT !.pc = "next"]}]
          IN Done(resetWaker(M1, dirty, pick, rnow), 0, {k})
    /\ UNCHANGED <<build, rnow, pool, gos>>

\* when := c.NextAt() and the test of the loop.
MxFfNextAt(k) ==
    /\ build = "single"
    /\ k.op = "Fastforward"
    /\ k.pc = "next"
    /\ LET next == peek(wk[0].queue)
           when == IF next = 0 THEN ZeroTime ELSE tm[next].when
       IN calls' = (calls \ {k}) \cup
             {[k EXCEPT !.now = when,
                        !.pc = IF when = ZeroTime THEN "start" ELSE "until"]}
    /\ UNCHANGED <<build, rnow, c, wk, pool, tm, ch, gos, obs>>

\* dt := c.Until(when), that is when.Sub(c.Now()), and the clamp.
MxFfUntil(k) ==
    /\ build = "single"
    /\ k.op = "Fastforward"
    /\ k.pc = "until"
    /\ c' = advanceRefMx(c, rnow)
    /\ calls' = (calls \ {k}) \cup {[k EXCEPT !.d = Max(k.now - c'.now, 0), !.pc = "step"]}
    /\ UNCHANGED <<build, rnow, wk, pool, tm, ch, gos, obs>>

\* c.Step(dt)
MxFfStep(k) ==
    /\ build = "single"
    /\ k.op = "Fastforward"
    /\ k.pc = "step"
    /\ nowLocal(c, rnow) + k.d <= MaxLocal
    /\ \E pick \in Picks :
          LET c1 == advanceRefMx(c, rnow)
              M1 == [Mk(0) EXCEPT !.c = [c1 EXCEPT !.now = c1.now + k.d],
                                  !.obs.backward = @ \/ k.d < 0,
                                  !.spawn = {[k EXCEPT !.pc = "next"]}]
          IN Done(checkScheduleMx(M1, "Step", pick, rnow), 0, {k})
    /\ UNCHANGED <<build, rnow, pool, gos>>

\* if active { c.Start() }, and Fastforward returns.
MxFfStart(k) ==
    /\ build = "single"
    /\ k.op = "Fastforward"
    /\ k.pc = "start"
    /\ IF k.i = 1
       THEN \E pick \in Picks :
               LET c1 == advanceRefMx(c, rnow)
                   dirty == ~c1.active
                   M1 == [Mk(0) EXCEPT !.c = [c1 EXCEPT !.active = TRUE]]
               IN Done(resetWaker(M1, dirty, pick, rnow), 0, {k})
       ELSE /\ calls' = calls \ {k}
            /\ UNCHANGED <<c, wk, tm, ch, obs>>
    /\ UNCHANGED <<build, rnow, pool, gos>>

\* sharded build: c.Active(), a read under the read lock.
ShFfCall ==
    /\ build = "sharded"
    /\ calls' = calls \cup {FfCall(c.active)}
    /\ UNCHANGED <<build, rnow, c, wk, pool, tm, ch, gos, obs>>

\* sharded build: c.Stop()
ShFfStop(k) ==
    /\ build = "sharded"
    /\ k.op = "Fastforward"
    /\ k.pc = "stop"
    /\ LET c1 == advanceRef(c, rnow)
       IN /\ c' = [c1 EXCEPT !.active = FALSE]
          /\ Spawn(resetWakers(c1, c1.active))
    /\ calls' = (calls \ {k}) \cup {[k EXCEPT !.pc = "next", !.r = 0]}
    /\ UNCHANGED <<build, rnow, wk, pool, tm, ch, obs>>

\* sharded build: one turn of the loop of c.NextAt(), at waker k.r.  With
\* fewer events than wakers some queue is empty and the loop ends in the
\* panic: what follows NextAt in Fastforward is not reached in this build.
ShFfNextAt(k) ==
    /\ build = "sharded"
    /\ k.op = "Fastforward"
    /\ k.pc = "next"
    /\ k.r < nwakers
    /\ LET res == nextAtIter(tm, k.now, peek(wk[k.r].queue))
       IN IF res.st = "panic"
          THEN /\ calls' = calls \ {k}
               /\ obs' = [obs EXCEPT !.panic = "NextAt: nil pointer dereference"]
          ELSE /\ calls' = (calls \ {k}) \cup {[k EXCEPT !.r = @ + 1, !.now = res.v]}
               /\ obs' = obs
    /\ UNCHANGED <<build, rnow, c, wk, pool, tm, ch, gos>>

\* ------------------------------------------------------------ next state
\* Op: the step is a call made on the clock or on a handle.
\* Run: the step is taken by the reference clock or by the program itself (a
\* callback, a goroutine, the rest of a call in flight).
Op == nops < MaxOps /\ nops' = nops + 1

Run == nops' = nops

Next ==
    \/ Run /\ Tick
    \* single build
    \/ Run /\ MxRefFire
    \/ Run /\ MxRecv
    \/ Run /\ \E k \in calls : MxWake(k)
    \/ Run /\ \E k \in calls : MxTimerReset(k)
    \/ Run /\ \E k \in calls : MxTickerReset(k)
    \/ Op /\ MxStart
    \/ Op /\ MxStop
    \/ Op /\ \E s \in Scales : MxSetScale(s)
    \/ Op /\ \E t \in SetTargets : MxSet(t)
    \/ Op /\ \E d \in Durs : MxStep(d)
    \/ Op /\ MxNow
    \/ Op /\ \E i \in Timers, d \in Durs : MxNewTimer(i, d)
    \/ Op /\ \E i \in Timers, d \in Durs : MxNewTicker(i, d)
    \/ Op /\ \E i \in Timers, d \in Durs : MxAfterFunc(i, d)
    \/ Op /\ \E i \in Timers : MxTimerStop(i)
    \/ Op /\ \E i \in Timers : MxTickerStop(i)
    \/ Op /\ \E i \in Timers, d \in Durs : MxResetCall(i, d)
    \* sharded build
    \/ Run /\ \E w \in Wakers : ShRefFire(w)
    \/ Run /\ \E g \in gos : ShGoReset(g)
    \/ Run /\ \E g \in gos : ShGoCheck(g)
    \/ Run /\ \E k \in calls : ShNow(k)
    \/ Run /\ \E k \in calls : ShSync(k)
    \/ Run /\ \E k \in calls : ShNewTimer(k)
    \/ Run /\ \E k \in calls : ShNewTicker(k)
    \/ Run /\ \E k \in calls : ShAfterFunc(k)
    \/ Run /\ \E k \in calls : ShTimerStop(k)
    \/ Run /\ \E k \in calls : ShTickerStop(k)
    \/ Run /\ \E k \in calls : ShTimerReset(k)
    \/ Run /\ \E k \in calls : ShTickerReset(k)
    \/ Run /\ \E k \in calls : ShWake(k)
    \/ Op /\ ShStart
    \/ Op /\ ShStop
    \/ Op /\ \E s \in Scales : ShSetScale(s)
    \/ Op /\ \E t \in SetTargets : ShSet(t)
    \/ Op /\ \E d \in Durs : ShStep(d)
    \/ Op /\ ShNowCall
    \/ Op /\ \E i \in Timers, d \in Durs : ShNewTimerCall(i, d)
    \/ Op /\ \E i \in Timers, d \in Durs : ShNewTickerCall(i, d)
    \/ Op /\ \E i \in Timers, d \in Durs : ShAfterFuncCall(i, d)
    \/ Op /\ \E i \in Timers : ShStopCall(i)
    \/ Op /\ \E i \in Timers, d \in Durs : ShResetCall(i, d)

Spec == Init /\ [][Next]_vars

\* ------------------------------------------------------------ a scenario
\* Start(); SetScale(0); NewTimer(ScnD); Step(ScnD), called one after the
\* other by one caller, while the reference clock advances as it likes.
ScnD == 2

\* In the scenario of the ticker that is Reset, Step stops at this local time.
ScnEnd == 6

Scn(n) == nops = n /\ UserCalls = {} /\ nops' = n + 1

NextScn ==
    \/ Run /\ Tick
    \/ Scn(0) /\ MxStart
    \/ Scn(0) /\ ShStart
    \/ Scn(1) /\ MxSetScale(0)
    \/ Scn(1) /\ ShSetScale(0)
    \/ Scn(2) /\ MxNewTimer(1, ScnD)
    \/ Scn(2) /\ ShNewTimerCall(1, ScnD)
    \/ Scn(3) /\ MxStep(ScnD)
    \/ Scn(3) /\ ShStep(ScnD)
    \/ Run /\ \E g \in gos : ShGoReset(g)
    \/ Run /\ \E g \in gos : ShGoCheck(g)
    \/ Run /\ \E k \in calls : ShSync(k)
    \/ Run /\ \E k \in calls : ShNewTimer(k)

SpecScn == Init /\ [][NextScn]_vars

\* ------------------------------------------- scenarios on a stepped reference
\* One caller makes its calls one after the other; the reference clock is a
\* stepped clock that nobody steps.  Turn(n, m): the call is made when n
\* calls have been made and have returned, and counts as call number m (the
\* stepped clock has no Start: its first call counts as the second).
Turn(n, m) == nops = n /\ UserCalls = {} /\ nops' = m

\* Start(); NewTicker(p); Step(s)
NextTk ==
    \/ Turn(0, 1) /\ MxStart
    \/ Turn(0, 1) /\ ShStart
    \/ Turn(1, 2) /\ \E p \in Durs : MxNewTicker(1, p)
    \/ Turn(1, 2) /\ \E p \in Durs : ShNewTickerCall(1, p)
    \/ Turn(0, 2) /\ \E p \in Durs : StNewTicker(1, p)
    \/ Turn(2, 3) /\ \E d \in 0..MaxLocal : MxStep(d)
    \/ Turn(2, 3) /\ \E d \in 0..MaxLocal : ShStep(d)
    \/ Turn(2, 3) /\ \E d \in 0..MaxLocal : StStep(d)
    \/ Run /\ \E g \in gos : ShGoReset(g)
    \/ Run /\ \E g \in gos : ShGoCheck(g)
    \/ Run /\ \E k \in calls : ShSync(k)
    \/ Run /\ \E k \in calls : ShNewTicker(k)

SpecTk == InitAll /\ [][NextTk]_vars

\* Start(); t = NewTimer(ScnD); Step(a) or t.Stop(); t.Reset(ScnD);
\* Step(ScnD - 1); Step(1).  With a < ScnD the timer is pending when it is
\* Reset; with a = ScnD it has fired, after Stop it is stopped.
NextRs ==
    \/ Turn(0, 1) /\ MxStart
    \/ Turn(0, 1) /\ ShStart
    \/ Turn(1, 2) /\ MxNewTimer(1, ScnD)
    \/ Turn(1, 2) /\ ShNewTimerCall(1, ScnD)
    \/ Turn(0, 2) /\ StNewTimer(1, ScnD)
    \/ Turn(2, 3) /\ \E a \in 0..ScnD : MxStep(a)
    \/ Turn(2, 3) /\ \E a \in 0..ScnD : ShStep(a)
    \/ Turn(2, 3) /\ \E a \in 0..ScnD : StStep(a)
    \/ Turn(2, 3) /\ MxTimerStop(1)
    \/ Turn(2, 3) /\ ShStopCall(1)
    \/ Turn(2, 3) /\ StTimerStop(1)
    \/ Turn(3, 4) /\ MxResetCall(1, ScnD)
    \/ Turn(3, 4) /\ ShResetCall(1, ScnD)
    \/ Turn(3, 4) /\ StTimerReset(1, ScnD)
    \/ Turn(4, 5) /\ MxStep(ScnD - 1)
    \/ Turn(4, 5) /\ ShStep(ScnD - 1)
    \/ Turn(4, 5) /\ StStep(ScnD - 1)
    \/ Turn(5, 6) /\ MxStep(1)
    \/ Turn(5, 6) /\ ShStep(1)
    \/ Turn(5, 6) /\ StStep(1)
    \/ Run /\ \E k \in calls : MxTimerReset(k)
    \/ Run /\ \E g \in gos : ShGoReset(g)
    \/ Run /\ \E g \in gos : ShGoCheck(g)
    \/ Run /\ \E k \in calls : ShSync(k)
    \/ Run /\ \E k \in calls : ShNewTimer(k)
    \/ Run /\ \E k \in calls : ShTimerStop(k)
    \/ Run /\ \E k \in calls : ShTimerReset(k)

SpecRs == InitAll /\ [][NextRs]_vars

\* Start(); t = NewTimer(d); u = NewTimer(e); Step(a); t.Stop(); t.Stop(),
\* with the wake callbacks of the reference timers that are due at once.
NextSp ==
    \/ Turn(0, 1) /\ MxStart
    \/ Turn(0, 1) /\ ShStart
    \/ Turn(1, 2) /\ \E d \in Durs : MxNewTimer(1, d)
    \/ Turn(1, 2) /\ \E d \in Durs : ShNewTimerCall(1, d)
    \/ Turn(0, 2) /\ \E d \in Durs : StNewTimer(1, d)
    \/ Turn(2, 3) /\ \E d \in Durs : MxNewTimer(2, d)
    \/ Turn(2, 3) /\ \E d \in Durs : ShNewTimerCall(2, d)
    \/ Turn(2, 3) /\ \E d \in Durs : StNewTimer(2, d)
    \/ Turn(3, 4) /\ \E a \in Durs : MxStep(a)
    \/ Turn(3, 4) /\ \E a \in Durs : ShStep(a)
    \/ Turn(3, 4) /\ \E a \in Durs : StStep(a)
    \/ (Turn(4, 5) \/ Turn(5, 6)) /\ MxTimerStop(1)
    \/ (Turn(4, 5) \/ Turn(5, 6)) /\ ShStopCall(1)
    \/ (Turn(4, 5) \/ Turn(5, 6)) /\ StTimerStop(1)
    \/ Run /\ MxRefFire
    \/ Run /\ MxRecv
    \/ Run /\ \E k \in calls : MxWake(k)
    \/ Run /\ \E w \in Wakers : ShRefFire(w)
    \/ Run /\ \E g \in gos : ShGoReset(g)
    \/ Run /\ \E g \in gos : ShGoCheck(g)
    \/ Run /\ \E k \in calls : ShSync(k)
    \/ Run /\ \E k \in calls : ShNewTimer(k)
    \/ Run /\ \E k \in calls : ShTimerStop(k)
    \/ Run /\ \E k \in calls : ShWake(k)

SpecSp == InitAll /\ [][NextSp]_vars

\* Start(); t = NewTicker(p); Step(a); t.Stop(); receive; Step(b); receive,
\* while the reference clock advances and its timers wake the clock.
NextTs ==
    \/ Run /\ Tick
    \/ Turn(0, 1) /\ MxStart
    \/ Turn(0, 1) /\ ShStart
    \/ Turn(1, 2) /\ \E p \in Durs : MxNewTicker(1, p)
    \/ Turn(1, 2) /\ \E p \in Durs : ShNewTickerCall(1, p)
    \/ Turn(0, 2) /\ \E p \in Durs : StNewTicker(1, p)
    \/ (Turn(2, 3) \/ Turn(5, 6)) /\ \E a \in Durs : MxStep(a)
    \/ (Turn(2, 3) \/ Turn(5, 6)) /\ \E a \in Durs : ShStep(a)
    \/ (Turn(2, 3) \/ Turn(5, 6)) /\ \E a \in Durs : StStep(a)
    \/ Turn(3, 4) /\ MxTickerStop(1)
    \/ Turn(3, 4) /\ ShStopCall(1)
    \/ Turn(3, 4) /\ StTickerStop(1)
    \/ (Turn(4, 5) \/ Turn(6, 7)) /\ Recv(1)
    \/ Run /\ MxRefFire
    \/ Run /\ MxRecv
    \/ Run /\ \E k \in calls : MxWake(k)
    \/ Run /\ \E w \in Wakers : ShRefFire(w)
    \/ Run /\ \E g \in gos : ShGoReset(g)
    \/ Run /\ \E g \in gos : ShGoCheck(g)
    \/ Run /\ \E k \in calls : ShSync(k)
    \/ Run /\ \E k \in calls : ShNewTicker(k)
    \/ Run /\ \E k \in calls : ShTickerStop(k)
    \/ Run /\ \E k \in calls : ShWake(k)

SpecTs == InitAll /\ [][NextTs]_vars

\* The caller makes its next call when everything the calls before it
\* started has run.
Wait(n, m) == nops = n /\ Quiet /\ nops' = m

\* Start(); t = NewTicker(p); then Step(1) until a tick is in the channel,
\* receive it, and so on; after a receive, at once, t.Reset(2 * p); then Step(1)
\* and receive as before.
NextTr ==
    \/ Wait(0, 1) /\ MxStart
    \/ Wait(0, 1) /\ ShStart
    \/ Wait(1, 2) /\ \E p \in Durs : MxNewTicker(1, p)
    \/ Wait(1, 2) /\ \E p \in Durs : ShNewTickerCall(1, p)
    \/ Wait(0, 2) /\ \E p \in Durs : StNewTicker(1, p)
    \/ (Wait(2, 2) \/ Wait(3, 3)) /\ ch[1] = <<>> /\ MxStepUpTo(1, ScnEnd)
    \/ (Wait(2, 2) \/ Wait(3, 3)) /\ ch[1] = <<>> /\ ShStepUpTo(1, ScnEnd)
    \/ (Wait(2, 2) \/ Wait(3, 3)) /\ ch[1] = <<>> /\ StStepUpTo(1, ScnEnd)
    \/ (Wait(2, 2) \/ Wait(3, 3)) /\ ch[1] # <<>> /\ Recv(1)
    \/ Wait(2, 3) /\ obs.got = Got("value", c.now) /\ MxResetCall(1, 2 * tm[1].period)
    \/ Wait(2, 3) /\ obs.got = Got("value", c.now) /\ ShResetCall(1, 2 * tm[1].period)
    \/ Wait(2, 3) /\ obs.got = Got("value", c.now) /\ StTickerReset(1, 2 * tm[1].period)
    \/ Run /\ \E k \in calls : MxTickerReset(k)
    \/ Run /\ \E g \in gos : ShGoReset(g)
    \/ Run /\ \E g \in gos : ShGoCheck(g)
    \/ Run /\ \E k \in calls : ShSync(k)
    \/ Run /\ \E k \in calls : ShNewTicker(k)
    \/ Run /\ \E k \in calls : ShTickerReset(k)

SpecTr == InitAll /\ [][NextTr]_vars

\* ------------------------------------------------------------- teardown
InitTd == build = "stepped" /\ NewClock

\* One goroutine steps the clock by one unit at a time, up to ScnEnd.
TdStepper == Run /\ StStepUpTo(1, ScnEnd)

\* Another goroutine repeats  t = NewTicker(d); <-t.C(); t.Stop()  with a
\* new ticker each time; the receive blocks until a tick is in the channel.
\* It makes a ticker while the stepper can still reach its first tick.
TdThread ==
    \/ \E i \in Timers, d \in Durs :
          Turn(3 * i - 3, 3 * i - 2) /\ c.now + d <= ScnEnd /\ StNewTicker(i, d)
    \/ \E i \in Timers : Turn(3 * i - 2, 3 * i - 1) /\ ch[i] # <<>> /\ Recv(i)
    \/ \E i \in Timers : Turn(3 * i - 1, 3 * i) /\ StTickerStop(i)

NextTd == TdStepper \/ TdThread

\* A step of the stepper as it shows in c: Step can be taken exactly when the
\* mutex is free and the end is not reached, and no other step of NextTd
\* changes c.
Stepping == Run /\ Unlocked /\ c.now < ScnEnd /\ c' = [c EXCEPT !.now = @ + 1]

\* The Go scheduler runs every goroutine that can run.
SpecTd ==
    /\ InitTd
    /\ [][NextTd]_vars
    /\ WF_c(Stepping)
    /\ WF_vars(TdThread)

\* ------------------------------------------------------- retrograde clocks
\* The operations of a clock whose scale is set to -1 or to 1: local time
\* runs backwards against the reference while the scale is negative.
NextNeg ==
    \/ Run /\ Tick
    \/ Run /\ MxRefFire
    \/ Run /\ MxRecv
    \/ Run /\ \E k \in calls : MxWake(k)
    \/ Run /\ \E k \in calls : MxTimerReset(k)
    \/ Op /\ MxStart
    \/ Op /\ \E s \in {-1, 1} : MxSetScale(s)
    \/ Op /\ \E d \in Durs : MxStep(d)
    \/ Op /\ \E i \in Timers, d \in Durs : MxNewTimer(i, d)
    \/ Op /\ \E i \in Timers : MxTimerStop(i)
    \/ Op /\ \E i \in Timers, d \in Durs : MxResetCall(i, d)
    \/ Run /\ \E w \in Wakers : ShRefFire(w)
    \/ Run /\ \E g \in gos : ShGoReset(g)
    \/ Run /\ \E g \in gos : ShGoCheck(g)
    \/ Run /\ \E k \in calls : ShSync(k)
    \/ Run /\ \E k \in calls : ShNewTimer(k)
    \/ Run /\ \E k \in calls : ShTimerStop(k)
    \/ Run /\ \E k \in calls : ShTimerReset(k)
    \/ Run /\ \E k \in calls : ShWake(k)
    \/ Op /\ ShStart
    \/ Op /\ \E s \in {-1, 1} : ShSetScale(s)
    \/ Op /\ \E d \in Durs : ShStep(d)
    \/ Op /\ \E i \in Timers, d \in Durs : ShNewTimerCall(i, d)
    \/ Op /\ \E i \in Timers : ShStopCall(i)
    \/ Op /\ \E i \in Timers, d \in Durs : ShResetCall(i, d)

SpecNeg == Init /\ [][NextNeg]_vars

\* ---------------------------------------------------------------- sleepers
\* Callers of Sleep(d), d > 0, on a clock that is started, stopped, scaled,
\* set and stepped while the reference clock advances.
NextSl ==
    \/ Run /\ Tick
    \/ Run /\ MxRefFire
    \/ Run /\ MxRecv
    \/ Run /\ \E k \in calls : MxWake(k)
    \/ Run /\ \E w \in Wakers : ShRefFire(w)
    \/ Run /\ \E g \in gos : ShGoReset(g)
    \/ Run /\ \E g \in gos : ShGoCheck(g)
    \/ Run /\ \E k \in calls : ShSync(k)
    \/ Run /\ \E k \in calls : ShSleep(k)
    \/ Run /\ \E k \in calls : ShWake(k)
    \/ Run /\ \E k \in calls : SleepReturn(k)
    \/ Op /\ MxStart
    \/ Op /\ MxStop
    \/ Op /\ \E s \in Scales : MxSetScale(s)
    \/ Op /\ \E t \in SetTargets : MxSet(t)
    \/ Op /\ \E d \in Durs : MxStep(d)
    \/ Op /\ \E i \in Timers, d \in 1..MaxD : MxSleep(i, d)
    \/ Op /\ ShStart
    \/ Op /\ ShStop
    \/ Op /\ \E s \in Scales : ShSetScale(s)
    \/ Op /\ \E t \in SetTargets : ShSet(t)
    \/ Op /\ \E d \in Durs : ShStep(d)
    \/ Op /\ \E i \in Timers, d \in 1..MaxD : ShSleepCall(i, d)
    \/ Op /\ \E t \in SetTargets : StSet(t)
    \/ Op /\ \E d \in Durs : StStep(d)
    \/ Op /\ \E i \in Timers, d \in 1..MaxD : StSleep(i, d)

SpecSl == InitAll /\ [][NextSl]_vars

\* ------------------------------------------------------- arguments of any sign
\* The methods that check their argument or their handle, called with
\* durations from -MinD up and on handles linked or not, on a clock that is
\* started and whose reference clock advances.
NextEh ==
    \/ Run /\ Tick
    \/ Run /\ MxRefFire
    \/ Run /\ MxRecv
    \/ Run /\ \E k \in calls : MxWake(k)
    \/ Run /\ \E k \in calls : MxTimerReset(k)
    \/ Run /\ \E k \in calls : MxTickerReset(k)
    \/ Run /\ \E w \in Wakers : ShRefFire(w)
    \/ Run /\ \E g \in gos : ShGoReset(g)
    \/ Run /\ \E k \in calls : ShSync(k)
    \/ Run /\ \E k \in calls : ShNewTimer(k)
    \/ Run /\ \E k \in calls : ShNewTicker(k)
    \/ Run /\ \E k \in calls : ShSleep(k)
    \/ Run /\ \E k \in calls : ShTimerStop(k)
    \/ Run /\ \E k \in calls : ShTickerStop(k)
    \/ Run /\ \E k \in calls : ShTimerReset(k)
    \/ Run /\ \E k \in calls : ShTickerReset(k)
    \/ Run /\ \E k \in calls : ShWake(k)
    \/ Run /\ \E k \in calls : SleepReturn(k)
    \/ Op /\ MxStart
    \/ Op /\ \E i \in Timers, d \in Durs : MxNewTimer(i, d)
    \/ Op /\ \E i \in Timers, d \in AnyDurs : MxTryNewTicker(i, d)
    \/ Op /\ \E i \in Timers, d \in AnyDurs : MxClockTick(i, d)
    \/ Op /\ \E i \in Timers, d \in AnyDurs : MxSleep(i, d)
    \/ Op /\ \E i \in Timers, d \in AnyDurs : MxTryTickerReset(i, d)
    \/ Op /\ \E i \in Timers, d \in Durs : MxTryTimerReset(i, d)
    \/ Op /\ \E i \in Timers : MxTryTickerStop(i)
    \/ Op /\ \E i \in Timers : MxTryTimerStop(i)
    \/ Op /\ ShStart
    \/ Op /\ \E i \in Timers, d \in Durs : ShNewTimerCall(i, d)
    \/ Op /\ \E i \in Timers, d \in AnyDurs : ShTryNewTicker(i, d)
    \/ Op /\ \E i \in Timers, d \in AnyDurs : ShClockTick(i, d)
    \/ Op /\ \E i \in Timers, d \in AnyDurs : ShSleepCall(i, d)
    \/ Op /\ \E i \in Timers, d \in AnyDurs : ShTryTickerReset(i, d)
    \/ Op /\ \E i \in Timers, d \in Durs : ShTryTimerReset(i, d)
    \/ Op /\ \E i \in Timers : ShTryTickerStop(i)
    \/ Op /\ \E i \in Timers : ShTryTimerStop(i)
    \/ Op /\ \E i \in Timers, d \in Durs : StNewTimer(i, d)
    \/ Op /\ \E i \in Timers, d \in AnyDurs : StTryNewTicker(i, d)
    \/ Op /\ \E i \in Timers, d \in AnyDurs : StClockTick(i, d)
    \/ Op /\ \E i \in Timers, d \in AnyDurs : StSleep(i, d)
    \/ Op /\ \E i \in Timers, d \in AnyDurs : StTryTickerReset(i, d)
    \/ Op /\ \E i \in Timers, d \in Durs : StTryTimerReset(i, d)
    \/ Op /\ \E i \in Timers : StTryTickerStop(i)
    \/ Op /\ \E i \in Timers : StTryTimerStop(i)
    \/ Op /\ \E d \in Durs : StStep(d)

SpecEh == InitAll /\ [][NextEh]_vars

\* ------------------------------------------------------------ NextAt callers
\* NextAt called on a clock with no, one or two timers pending, created,
\* stepped over and stopped by the calls before it.
NextNa ==
    \/ Run /\ Tick
    \/ Run /\ MxRefFire
    \/ Run /\ MxRecv
    \/ Run /\ \E k \in calls : MxWake(k)
    \/ Run /\ \E w \in Wakers : ShRefFire(w)
    \/ Run /\ \E g \in gos : ShGoReset(g)
    \/ Run /\ \E g \in gos : ShGoCheck(g)
    \/ Run /\ \E k \in calls : ShSync(k)
    \/ Run /\ \E k \in calls : ShNewTimer(k)
    \/ Run /\ \E k \in calls : ShTimerStop(k)
    \/ Run /\ \E k \in calls : ShWake(k)
    \/ Run /\ \E k \in calls : ShNextAt(k)
    \/ Op /\ MxStart
    \/ Op /\ \E d \in Durs : MxStep(d)
    \/ Op /\ \E i \in Timers, d \in Durs : MxNewTimer(i, d)
    \/ Op /\ \E i \in Timers : MxTimerStop(i)
    \/ Op /\ MxNextAt
    \/ Op /\ ShStart
    \/ Op /\ \E d \in Durs : ShStep(d)
    \/ Op /\ \E i \in Timers, d \in Durs : ShNewTimerCall(i, d)
    \/ Op /\ \E i \in Timers : ShStopCall(i)
    \/ Op /\ ShNextAtCall

SpecNa == Init /\ [][NextNa]_vars

\* --------------------------------------------------------- Fastforward runs
\* Last: the call is the last one made on the clock.
Last == nops < MaxOps /\ nops' = MaxOps

\* Timers, tickers and AfterFunc events are made on a clock that is started
\* or not; then Fastforward is called and runs beside the wakers.
NextFf ==
    \/ Run /\ Tick
    \/ Run /\ MxRefFire
    \/ Run /\ MxRecv
    \/ Run /\ \E k \in calls : MxWake(k)
    \/ Run /\ \E k \in calls : MxFfStop(k)
    \/ Run /\ \E k \in calls : MxFfNextAt(k)
    \/ Run /\ \E k \in calls : MxFfUntil(k)
    \/ Run /\ \E k \in calls : MxFfStep(k)
    \/ Run /\ \E k \in calls : MxFfStart(k)
    \/ Run /\ \E w \in Wakers : ShRefFire(w)
    \/ Run /\ \E g \in gos : ShGoReset(g)
    \/ Run /\ \E k \in calls : ShSync(k)
    \/ Run /\ \E k \in calls : ShNewTimer(k)
    \/ Run /\ \E k \in calls : ShNewTicker(k)
    \/ Run /\ \E k \in calls : ShAfterFunc(k)
    \/ Run /\ \E k \in calls : ShWake(k)
    \/ Run /\ \E k \in calls : ShFfStop(k)
    \/ Run /\ \E k \in calls : ShFfNextAt(k)
    \/ Op /\ MxStart
    \/ Op /\ \E i \in Timers, d \in Durs : MxNewTimer(i, d)
    \/ Op /\ \E i \in Timers, d \in Durs : MxNewTicker(i, d)
    \/ Op /\ \E i \in Timers, d \in Durs : MxAfterFunc(i, d)
    \/ Last /\ MxFfCall
    \/ Op /\ ShStart
    \/ Op /\ \E i \in Timers, d \in Durs : ShNewTimerCall(i, d)
    \/ Op /\ \E i \in Timers, d \in Durs : ShNewTickerCall(i, d)
    \/ Op /\ \E i \in Timers, d \in Durs : ShAfterFuncCall(i, d)
    \/ Last /\ UserCalls = {} /\ ShFfCall

SpecFf == Init /\ [][NextFf]_vars

\* ------------------------------------------------------- AfterFunc callers
\* AfterFunc and NewTimer events on the three clocks.  The functions of
\* AfterFunc call back into the clock: Start, NewTimer, AfterFunc and Step
\* are called by any goroutine, a running f among them; Timer.Stop and
\* Timer.Reset, on any handle, are called by a running f.
NextAf ==
    \/ Run /\ Tick
    \/ Run /\ MxRefFire
    \/ Run /\ MxRecv
    \/ Run /\ \E k \in calls : MxWake(k)
    \/ Run /\ \E k \in calls : MxTimerReset(k)
    \/ Run /\ \E w \in Wakers : ShRefFire(w)
    \/ Run /\ \E g \in gos : ShGoReset(g)
    \/ Run /\ \E g \in gos : ShGoCheck(g)
    \/ Run /\ \E k \in calls : ShSync(k)
    \/ Run /\ \E k \in calls : ShNewTimer(k)
    \/ Run /\ \E k \in calls : ShAfterFunc(k)
    \/ Run /\ \E k \in calls : ShTimerStop(k)
    \/ Run /\ \E k \in calls : ShTimerReset(k)
    \/ Run /\ \E k \in calls : ShWake(k)
    \/ Run /\ \E i \in Timers : FStart(i)
    \/ Run /\ \E k \in calls : FEnd(k)
    \/ Op /\ MxStart
    \/ Op /\ \E i \in Timers, d \in Durs : MxNewTimer(i, d)
    \/ Op /\ \E i \in Timers, d \in Durs : MxAfterFunc(i, d)
    \/ Op /\ \E d \in Durs : MxStep(d)
    \/ Op /\ ShStart
    \/ Op /\ \E i \in Timers, d \in Durs : ShNewTimerCall(i, d)
    \/ Op /\ \E i \in Timers, d \in Durs : ShAfterFuncCall(i, d)
    \/ Op /\ \E d \in Durs : ShStep(d)
    \/ Op /\ \E i \in Timers, d \in Durs : StNewTimer(i, d)
    \/ Op /\ \E i \in Timers, d \in Durs : StAfterFunc(i, d)
    \/ Op /\ \E d \in Durs : StStep(d)
    \/ ByF /\ \E i \in Timers : MxTimerStop(i)
    \/ ByF /\ \E i \in Timers, d \in Durs : MxResetCall(i, d)
    \/ ByF /\ \E i \in Timers : ShStopCall(i)
    \/ ByF /\ \E i \in Timers, d \in Durs : ShResetCall(i, d)
    \/ ByF /\ \E i \in Timers : StTimerStop(i)
    \/ ByF /\ \E i \in Timers, d \in Durs : StTimerReset(i, d)

SpecAf == InitAll /\ [][NextAf]_vars

\* ------------------------------------------------- calls that change nothing
\* The clock is set up by up to MaxOps calls while the reference clock runs
\* and the wakers fire events (Free).  Then one caller makes a sequence of
\* calls, one after the other (Then), during which no reference time passes
\* and no waker runs:
\*   from 10: it looks at the running clock, calls Stop(), calls Start();
\*   from 20: it calls SetScale(s), looks, calls SetScale(s) again; a
\*            reference timer that is due may fire before it looks.
Free == nops <= MaxOps /\ nops' = nops

Begin(m) == nops <= MaxOps /\ nops' = m

Then(n, m) == nops = n /\ nops' = m

NextId ==
    \/ Free /\ Tick
    \/ Free /\ MxRefFire
    \/ Free /\ MxRecv
    \/ Free /\ \E k \in calls : MxWake(k)
    \/ Free /\ \E w \in Wakers : ShRefFire(w)
    \/ Free /\ \E k \in calls : ShSync(k)
    \/ Free /\ \E k \in calls : ShWake(k)
    \/ Run /\ \E k \in calls : ShNewTimer(k)
    \/ Run /\ \E g \in gos : ShGoReset(g)
    \/ Op /\ MxStart
    \/ Op /\ \E s \in Scales : MxSetScale(s)
    \/ Op /\ \E i \in Timers, d \in Durs : MxNewTimer(i, d)
    \/ Op /\ ShStart
    \/ Op /\ \E s \in Scales : ShSetScale(s)
    \/ Op /\ \E i \in Timers, d \in Durs : ShNewTimerCall(i, d)
    \/ Begin(10) /\ c.active /\ Observe
    \/ Then(10, 11) /\ MxStop
    \/ Then(11, 12) /\ MxStart
    \/ Then(10, 11) /\ ShStop
    \/ Then(11, 12) /\ ShStart
    \/ Begin(20) /\ UserCalls = {} /\ \E s \in Scales : MxSetScale(s)
    \/ Then(21, 22) /\ MxSetScale(c.scale)
    \/ Begin(20) /\ UserCalls = {} /\ \E s \in Scales : ShSetScale(s)
    \/ Then(21, 22) /\ ShSetScale(c.scale)
    \/ Then(20, 20) /\ MxRefFire
    \/ Then(20, 20) /\ \E w \in Wakers : ShRefFire(w)
    \/ Then(20, 21) /\ Observe

SpecId == Init /\ [][NextId]_vars

\* ------------------------------------------------------ the stepped clock
\* Every operation of the stepped clock and of its handles, the receives of
\* their users, the functions of AfterFunc and the return of Sleep.
NextSt ==
    \/ Run /\ StNow
    \/ Run /\ \E i \in Timers : Recv(i)
    \/ Run /\ \E k \in calls : SleepReturn(k)
    \/ Run /\ \E i \in Timers : FStart(i)
    \/ Run /\ \E k \in calls : FEnd(k)
    \/ Op /\ \E t \in SetTargets : StSet(t)
    \/ Op /\ \E d \in Durs : StStep(d)
    \/ Op /\ \E i \in Timers, d \in Durs : StNewTimer(i, d)
    \/ Op /\ \E i \in Timers, d \in Durs : StNewTicker(i, d)
    \/ Op /\ \E i \in Timers, d \in Durs : StAfterFunc(i, d)
    \/ Op /\ \E i \in Timers, d \in Durs : StSleep(i, d)
    \/ Op /\ \E i \in Timers : StTimerStop(i)
    \/ Op /\ \E i \in Timers : StTickerStop(i)
    \/ Op /\ \E i \in Timers, d \in Durs : StTimerReset(i, d)
    \/ Op /\ \E i \in Timers, d \in Durs : StTickerReset(i, d)

SpecSt == InitTd /\ [][NextSt]_vars

\* ------------------------------------------------------------ late wakes
\* A started clock with timers and tickers of positive duration; nothing
\* fires an event but the wake callbacks, which the reference clock may
\* deliver late.
NextWk ==
    \/ Run /\ Tick
    \/ Run /\ MxRefFire
    \/ Run /\ MxRecv
    \/ Run /\ \E k \in calls : MxWake(k)
    \/ Run /\ \E w \in Wakers : ShRefFire(w)
    \/ Run /\ \E g \in gos : ShGoReset(g)
    \/ Run /\ \E k \in calls : ShSync(k)
    \/ Run /\ \E k \in calls : ShNewTimer(k)
    \/ Run /\ \E k \in calls : ShNewTicker(k)
    \/ Run /\ \E k \in calls : ShWake(k)
    \/ Op /\ MxStart
    \/ Op /\ \E i \in Timers, d \in 1..MaxD : MxNewTimer(i, d)
    \/ Op /\ \E i \in Timers, d \in 1..MaxD : MxNewTicker(i, d)
    \/ Op /\ ShStart
    \/ Op /\ \E i \in Timers, d \in 1..MaxD : ShNewTimerCall(i, d)
    \/ Op /\ \E i \in Timers, d \in 1..MaxD : ShNewTickerCall(i, d)

SpecWk == Init /\ [][NextWk]_vars

\* ---------------------------------------------------------------- properties
\* The step is a call of Step, of Set, a return of Now.
IsStep == \E d \in Durs : MxStep(d) \/ ShStep(d)

IsSet == \E t \in SetTargets : MxSet(t) \/ ShSet(t)

NowReturns == MxNow \/ \E k \in calls : ShNow(k)

\* C1: no event fires early.  In every step that fires an event, the local
\* time of the clock after the step is at or after the when the event had,
\* whoever runs the fire (a wake callback, Set, Step), as long as local time
\* has not been set or stepped backwards.
C1_NoEarlyFire ==
    [][\A i \in Timers :
          (obs'.fired[i] > obs.fired[i] /\ ~obs'.backward)
              => tm[i].when <= nowLocal(c', rnow')]_vars

\* A wake callback has fired an event and local time never went backwards.
C1_Witness ==
    \E i \in Timers : obs.fired[i] > 0 /\ obs.lastBy = "wake" /\ ~obs.backward

\* C2: once Timer.Stop has returned true for a timer (of NewTimer or of
\* AfterFunc), no step fires that timer for as long as it is not Reset,
\* whatever wake callback, Step or Set runs beside the Stop.
C2_StopHolds ==
    [][\A i \in Timers :
          (tm[i].kind \in {"timer", "func"} /\ obs.stopped[i] /\ obs'.stopped[i])
              => obs'.fired[i] = obs.fired[i]]_vars

\* Stop returned true for a timer that never fired, and local time has since
\* passed its when.
C2_Witness ==
    \E i \in Timers :
        /\ obs.stopped[i]
        /\ tm[i].kind \in {"timer", "func"}
        /\ obs.fired[i] = 0
        /\ tm[i].when < c.now
        /\ Quiet

\* C3: fire order follows when.  No event fires after an event that had a
\* later when while both were pending.
C3_FireOrder == ~obs.ooo

\* C4: every pending event eventually fires while the clock runs, stated on
\* finite runs: the clock is never left runnable and quiet with a non-empty
\* queue whose reference timer is neither armed nor about to be received.
\* In such a state no advance of the reference clock fires the queue's
\* events.
C4_NoStall ==
    ~(/\ Runnable(c)
      /\ Quiet
      /\ \E w \in Wakers :
            wk[w].queue # <<>> /\ wk[w].waker.st \notin {"armed", "tick"})

\* C5: Step and Set drain synchronously.  When Step or Set returns, no
\* pending event has a when at or before the new local time.
C5_StepDrains ==
    [][(IsStep \/ IsSet)
          => \A i \in Timers : ~(Pending(tm', i) /\ tm'[i].when <= c'.now)]_vars

\* C6: local time is monotone.  As long as local time has not been set or
\* stepped backwards, a Now() never returns less than the Now() before it,
\* and an event is never fired with a local time less than the fire before
\* it.
C6_Monotone ==
    [][~obs'.backward
          => /\ obs.lastNow # Never => obs'.lastNow >= obs.lastNow
             /\ obs.lastBy # "none" => obs'.lastFire >= obs.lastFire]_vars

\* A resync: the step leaves the clock active with the same non-zero scale
\* and is neither Step nor Set.
Resync ==
    /\ Runnable(c)
    /\ Runnable(c')
    /\ c'.scale = c.scale
    /\ ~IsStep
    /\ ~IsSet

\* C7: sync-point projection.  While the clock is runnable, the local time
\* at every reference instant r from the sync point on is
\* now + (r - rNow) * scale, and a resync leaves the local time of every
\* such r as it was.
C7_Projection ==
    [][/\ Runnable(c) =>
             \A r \in c.rNow..MaxRef :
                 nowLocal(c, r) = c.now + (r - c.rNow) * c.scale
       /\ Resync =>
             \A r \in c'.rNow..MaxRef : nowLocal(c', r) = nowLocal(c, r)]_vars

\* The clock runs at scale 2, has resynced after its start, and the
\* reference clock has moved on since.
C7_Witness ==
    /\ Runnable(c)
    /\ c.scale = 2
    /\ c.rNow > 0
    /\ c.now > 0
    /\ rnow > c.rNow
    /\ ~obs.backward

\* C8: paused clocks do not move.  In a step that is neither Step nor Set,
\* taken while the clock is not runnable or while the reference clock stands
\* still, local time stays what it was (so a Start or SetScale after a
\* pause credits nothing); and a Now() that returns while the clock is not
\* runnable returns the frozen local time.
C8_Paused ==
    [][/\ ((~Runnable(c) \/ rnow' = rnow) /\ ~IsStep /\ ~IsSet)
             => nowLocal(c', rnow') = nowLocal(c, rnow)
       /\ (NowReturns /\ ~Runnable(c)) => obs'.lastNow = c.now]_vars

\* The clock was started after the reference clock had advanced to MaxRef
\* while it was paused, and local time is still 0.
C8_Witness ==
    /\ Runnable(c)
    /\ c.rNow = MaxRef
    /\ c.now = 0
    /\ ~obs.backward

\* C9, as stated: while the clock is not runnable the only fires are those
\* of Set and Step.
C9_OnlySetStep ==
    (obs.lastBy # "none" /\ ~obs.lastRun) => obs.lastBy \in {"Set", "Step"}

\* C9, amended: while the clock is not runnable, an event whose when is
\* after the frozen local time is fired only by Set or Step; a wake callback
\* delivered late fires only events that were already due.
C9_PausedNotDue ==
    [][\A i \in Timers :
          (obs'.fired[i] > obs.fired[i] /\ ~Runnable(c) /\ tm[i].when > c.now)
              => obs'.lastBy \in {"Set", "Step"}]_vars

\* Step has fired an event on a clock that was not runnable.
C9_Witness ==
    /\ obs.lastBy = "Step"
    /\ ~obs.lastRun
    /\ \E i \in Timers : obs.fired[i] > 0 /\ tm[i].when > 0

\* C10: in the scenario the timer does not fire before Step, whatever the
\* reference clock does; its when is t0 + ScnD, t0 the local time frozen by
\* SetScale(0); and once Step and its goroutines are done it has fired
\* exactly once, with the value t0 + ScnD in its channel.
C10_PausedStep ==
    /\ nops <= 3 => obs.fired[1] = 0
    /\ (nops = 3 /\ tm[1].kind # "none") => tm[1].when = c.now + ScnD
    /\ (nops = 4 /\ gos = {}) =>
          /\ obs.fired[1] = 1
          /\ ch[1] = <<tm[1].when>>
          /\ obs.lastFire = tm[1].when
          /\ c.now = tm[1].when

\* The scenario has run to its end in the sharded build, the reference
\* clock having advanced to MaxRef only while the clock was paused.
C10_Witness ==
    /\ build = "sharded"
    /\ nops = 4
    /\ gos = {}
    /\ obs.fired[1] = 1
    /\ rnow = MaxRef
    /\ c.now = ScnD

\* C11: with a negative scale the waker is never armed.  No step that leaves
\* the scale negative creates or re-arms a reference timer, whatever the
\* queue holds, and once the calls and goroutines of the operations are done
\* no reference timer is armed or waiting to be received.
C11_NeverArmed ==
    [][c'.scale < 0 =>
          /\ \A w \in Wakers :
                wk'[w].waker.st = "armed" => wk'[w].waker = wk[w].waker
          /\ (calls' = {} /\ gos' = {}) =>
                \A w \in Wakers : wk'[w].waker.st \notin {"armed", "tick"}]_vars

\* C12: timer and ticker channels hold at most one value.  A fire that finds
\* the channel full drops its value and leaves the buffered one in place; a
\* fire that finds it empty puts the local time of the fire in it; and the
\* fire returns in the step that runs it, reader or no reader, so the drain
\* goes on to the other events.
C12_Capacity ==
    [][\A i \in Timers :
          /\ Len(ch'[i]) <= 1
          /\ obs'.fired[i] > obs.fired[i] =>
                /\ ch[i] # <<>> => ch'[i] = ch[i]
                /\ (ch[i] = <<>> /\ tm[i].kind \in {"timer", "ticker"})
                      => ch'[i] = <<obs'.lastFire>>
                /\ tm[i].kind = "func" => ch'[i] = <<>>]_vars

\* A handle has fired twice with nobody reading: its channel holds the value
\* of the first fire, earlier than the local time of the second.
C12_Witness ==
    \E i \in Timers :
        /\ obs.fired[i] = 2
        /\ Len(ch[i]) = 1
        /\ ch[i][1] < obs.lastFire
        /\ tm[i].kind \in {"timer", "ticker"}

\* C13, as stated, for a ticker of period p and a step of s >= p: after
\* Start(); NewTicker(p); Step(s) the channel holds one value, the last tick
\* p * (s / p), the ticks before it having been fired and dropped (for p = 50
\* and s = 175: the value 150, with 50 and 100 dropped).
C13_LastTick ==
    (nops = 3 /\ Quiet /\ c.now >= tm[1].period) =>
        /\ ch[1] = <<tm[1].period * (c.now \div tm[1].period)>>
        /\ obs.fired[1] = c.now \div tm[1].period

\* C13, amended: after Start(); NewTicker(p); Step(s) with s >= p the ticker
\* has fired once, the channel holds the one value s (the local time of the
\* fire), no tick was dropped and the next tick is due at s + p.  With s < p
\* the ticker has not fired and the channel is empty.
C13_OneTick ==
    (nops = 3 /\ Quiet) =>
        IF c.now >= tm[1].period
        THEN /\ ch[1] = <<c.now>>
             /\ obs.fired[1] = 1
             /\ tm[1].when = c.now + tm[1].period
        ELSE /\ ch[1] = <<>>
             /\ obs.fired[1] = 0

\* The scenario has run to its end with a period of 2 and a step of 3, one
\* period and a half.
C13_Witness ==
    /\ nops = 3
    /\ Quiet
    /\ tm[1].kind = "ticker"
    /\ tm[1].period = 2
    /\ c.now = 3
    /\ obs.fired[1] = 1

\* C14: ticker catch-up produces no fire burst.  A step (a drain by a wake
\* callback, Step, Set or one of their goroutines) fires a ticker at most
\* once; a fire at local time now finds the ticker's when at or before now
\* and leaves it at now + period, strictly after now.  Hence two consecutive
\* fires of a ticker that was not Reset in between are at least one period
\* apart in local time.
C14_NoBurst ==
    [][\A i \in Timers :
          (tm[i].kind = "ticker" /\ obs'.fired[i] # obs.fired[i]) =>
              /\ obs'.fired[i] = obs.fired[i] + 1
              /\ tm[i].when <= obs'.lastFire
              /\ tm'[i].when = obs'.lastFire + tm[i].period
              /\ tm'[i].when > obs'.lastFire
              /\ Pending(tm', i)]_vars

\* NewTicker(1) at local 0 followed by Step(2): the step spanned two periods
\* and the ticker has fired once.
C14_Witness ==
    \E i \in Timers :
        /\ nops = 2
        /\ tm[i].kind = "ticker"
        /\ tm[i].period = 1
        /\ obs.fired[i] = 1
        /\ obs.lastBy = "Step"
        /\ obs.lastFire = 2
        /\ tm[i].when = 3

\* Timer.Reset returns in this step.
ResetReturns ==
    \/ \E k \in calls : MxTimerReset(k) \/ ShTimerReset(k)
    \/ StTimerReset(1, ScnD)

\* C15: Timer.Reset(d) returns true iff the timer was pending when Reset
\* took it, and leaves it pending with when = local time + d, whether it was
\* pending, fired or stopped before; it then fires at the new when and not
\* at the old one.  For NewTimer(ScnD); Step(a); Reset(ScnD) with a < ScnD:
\* Reset returns true, the channel is empty after Step(ScnD - 1) and holds
\* a + ScnD after a further Step(1)  (NewTimer(100); Step(50); Reset(100):
\* empty after Step(99), 150 after Step(1)).
C15_Reset ==
    /\ [][ResetReturns =>
             /\ obs'.ret = Ret("Reset", 1, Pending(tm, 1))
             /\ Pending(tm', 1)
             /\ tm'[1].when = c.now + ScnD]_vars
    /\ []((nops = 4 /\ UserCalls = {}) =>
             Pending(tm, 1) /\ tm[1].when = c.now + ScnD)
    /\ []((nops = 5 /\ Quiet) =>
             /\ Pending(tm, 1)
             /\ tm[1].when = c.now + 1
             /\ obs.ret.active => (ch[1] = <<>> /\ obs.fired[1] = 0))
    /\ []((nops = 6 /\ Quiet) =>
             /\ ~Pending(tm, 1)
             /\ tm[1].when = c.now
             /\ obs.lastFire = c.now
             /\ obs.ret.active =>
                   (ch[1] = <<c.now>> /\ obs.fired[1] = 1))

\* The scenario has run to its end: the timer was Reset while pending, one
\* unit after its creation, and has fired at its new when.
C15_Witness ==
    /\ nops = 6
    /\ Quiet
    /\ obs.ret = Ret("Reset", 1, TRUE)
    /\ ch[1] = <<ScnD + 1>>
    /\ obs.fired[1] = 1

\* C16: a one-shot timer fires at most once per arming.  Between two
\* consecutive armings of a timer (its creation, a Reset) its fire action
\* runs at most once, whatever Step, Set, wake callback, Reset and Stop run
\* beside each other; a timer that has fired is out of the queue until it is
\* Reset, so its channel is sent to once.
C16_OncePerArming ==
    \A i \in Timers :
        tm[i].kind \in {"timer", "func"} =>
            /\ obs.shots[i] <= 1
            /\ obs.shots[i] = 1 => ~Pending(tm, i)

\* A timer has fired, has been Reset, and has fired again.
C16_Witness ==
    \E i \in Timers :
        /\ tm[i].kind = "timer"
        /\ obs.fired[i] = 2
        /\ obs.shots[i] = 1
        /\ obs.ret = Ret("Reset", i, FALSE)

\* Timer.Stop of handle i returns in this step.
StopReturns(i) ==
    \/ MxTimerStop(i)
    \/ StTimerStop(i)
    \/ \E k \in calls : k.i = i /\ ShTimerStop(k)

\* C17: Timer.Stop returns true iff the timer was pending, and leaves it
\* out of the queue.  On a timer that has fired or was stopped it returns
\* false and changes nothing: every queue, every record (when and index)
\* and every channel is as it was.  A Stop that follows a Stop of the same
\* timer, no Reset in between, returns false.
C17_Stop ==
    [][\A i \in Timers :
          StopReturns(i) =>
              /\ obs'.ret = Ret("Stop", i, Pending(tm, i))
              /\ ~Pending(tm', i)
              /\ ~Pending(tm, i) =>
                    /\ tm' = tm
                    /\ ch' = ch
                    /\ \A w \in Wakers : wk'[w].queue = wk[w].queue
              /\ obs.ret.op = "Stop" /\ obs.ret.i = i => ~obs'.ret.active
              /\ \A j \in Timers \ {i} :
                    /\ tm'[j].when = tm[j].when
                    /\ Pending(tm', j) <=> Pending(tm, j)]_vars

\* Stop has returned false twice on a timer that had fired, while the other
\* timer was pending.
C17_Witness ==
    /\ nops = 6
    /\ Quiet
    /\ obs.ret = Ret("Stop", 1, FALSE)
    /\ obs.fired[1] = 1
    /\ ch[1] # <<>>
    /\ Pending(tm, 2)

\* C18: after Ticker.Stop has returned, no tick is sent on the ticker's
\* channel for as long as the ticker is not Reset, however far Step and the
\* reference clock advance local time; and Stop does not close the channel:
\* a receive made after Stop and after the channel was drained finds it
\* empty, not closed.
C18_TickerStop ==
    /\ [][\A i \in Timers :
             (tm[i].kind = "ticker" /\ obs.stopped[i] /\ obs'.stopped[i]) =>
                 /\ obs'.fired[i] = obs.fired[i]
                 /\ ch'[i] = ch[i] \/ ch'[i] = <<>>
                 /\ ~Pending(tm', i)]_vars
    /\ [](\A i \in Timers : ch[i] # Closed)
    /\ [](nops = 7 => obs.got = Got("empty", 0) /\ ch[1] = <<>>)

\* The ticker ticked before it was stopped, local time has since passed the
\* tick that was next, and the last receive found the channel empty.
C18_Witness ==
    /\ nops = 7
    /\ Quiet
    /\ obs.stopped[1]
    /\ obs.fired[1] = 1
    /\ LocalNow > tm[1].when
    /\ obs.got = Got("empty", 0)

\* Ticker.Reset(d) of handle 1 returns in this step.
TickerResetReturns(d) ==
    \/ \E k \in calls : k.d = d /\ (MxTickerReset(k) \/ ShTickerReset(k))
    \/ StTickerReset(1, d)

\* C19: Ticker.Reset(d) sets the period to d and the next tick to local time
\* + d, and the ticks after it follow every d.  On a clock stepped by one
\* unit at a time from local 0, every tick of a ticker of period p arrives at
\* a multiple of p, and after n ticks and Reset(2 * p) the k-th tick arrives
\* at n * p + k * 2 * p: n ticks, Reset(2 * p) and n more ticks span
\* 3 * n * p.
C19_TickerReset ==
    /\ [][\A d \in 1..(2 * MaxD) :
             TickerResetReturns(d) =>
                 /\ tm'[1].period = d
                 /\ tm'[1].when = c.now + d
                 /\ Pending(tm', 1)]_vars
    /\ []((nops = 2 /\ ch[1] # <<>>) =>
             ch[1] = <<obs.fired[1] * tm[1].period>>)
    /\ []((nops = 3 /\ ch[1] # <<>>) =>
             LET n == obs.fired[1] - obs.shots[1]
                 p == tm[1].period \div 2
             IN /\ obs.shots[1] >= 1
                /\ tm[1].period = 2 * p
                /\ ch[1] = <<n * p + obs.shots[1] * 2 * p>>
                /\ obs.shots[1] = n => ch[1] = <<3 * n * p>>)

\* One tick at period 2, Reset(4) and one more tick: the second tick is in
\* the channel, at local time 6.
C19_Witness ==
    /\ nops = 3
    /\ tm[1].period = 4
    /\ obs.fired[1] = 2
    /\ obs.shots[1] = 1
    /\ ch[1] = <<6>>

\* C20: ticker teardown never deadlocks.  While one goroutine steps the
\* clock, another repeats NewTicker(d); receive; Stop(): every receive
\* returns, for the first ticker and for the tickers made after a Stop, and
\* every Stop returns and leaves its ticker stopped, Step or no Step beside it.
C20_Teardown ==
    \A i \in Timers :
        /\ (nops = 3 * i - 2) ~> (nops = 3 * i - 1 /\ obs.got.st = "value")
        /\ (nops = 3 * i - 1) ~> (nops = 3 * i /\ ~Pending(tm, i))

\* The cycle has been run for every handle: the last ticker, made after the
\* first was stopped, has ticked, was received from and is stopped, and the
\* clock has been stepped meanwhile.
C20_Witness ==
    /\ nops = 3 * NTimers
    /\ \A i \in Timers : obs.fired[i] >= 1 /\ ~Pending(tm, i)
    /\ obs.got.st = "value"
    /\ c.now >= 2

CallsNewTicker(i, d) ==
    MxTryNewTicker(i, d) \/ ShTryNewTicker(i, d) \/ StTryNewTicker(i, d)

CallsTickerReset(i, d) ==
    MxTryTickerReset(i, d) \/ ShTryTickerReset(i, d) \/ StTryTickerReset(i, d)

\* Nothing of the clock, of its queues, wakers, events and channels, and no
\* call in flight changes in this step.
ClockSame == UNCHANGED <<rnow, c, wk, pool, tm, ch, calls, gos>>

\* C22: NewTicker(d) and Ticker.Reset(d) with d <= 0 panic before any state
\* change: the step of the call records the panic and leaves the clock, the
\* sync point, every queue, every waker and every event (when, period, heap
\* position) as they were; with d > 0 on a linked ticker they do not panic.
C22_NonPositive ==
    [][\A i \in Timers, d \in AnyDurs :
          /\ (CallsNewTicker(i, d) /\ d <= 0) =>
                 obs'.panic = "NewTicker: non-positive interval" /\ ClockSame
          /\ (CallsTickerReset(i, d) /\ d <= 0) =>
                 obs'.panic = "Ticker.Reset: non-positive interval" /\ ClockSame
          /\ ((CallsNewTicker(i, d) \/ (CallsTickerReset(i, d) /\ ~Unlinked(i)))
                 /\ d > 0) => obs'.panic = obs.panic]_vars

\* Ticker.Reset has panicked on a pending ticker of a running clock whose
\* reference clock had advanced since the last sync.
C22_Witness ==
    /\ obs.panic = "Ticker.Reset: non-positive interval"
    /\ Runnable(c)
    /\ rnow > c.rNow
    /\ \E i \in Timers : tm[i].kind = "ticker" /\ Pending(tm, i)

\* Sleep(d) or Tick(d) is called in this step.
CallsSleep(i, d) == MxSleep(i, d) \/ ShSleepCall(i, d) \/ StSleep(i, d)

CallsTick(i, d) == MxClockTick(i, d) \/ ShClockTick(i, d) \/ StClockTick(i, d)

\* C23: Sleep(d) and Tick(d) with d <= 0 are silent no-ops.  The step of
\* the call returns (Tick with nil, no ticker made; Sleep with no caller
\* left waiting), does not panic, and leaves the clock, its sync point, every
\* queue, every waker and every event as they were.
C23_NoOps ==
    [][\A i \in Timers, d \in (0 - MinD)..0 :
          /\ CallsSleep(i, d) =>
                 /\ "Sleep" \in obs'.noop
                 /\ obs'.panic = obs.panic
                 /\ ClockSame
          /\ CallsTick(i, d) =>
                 /\ "Tick" \in obs'.noop
                 /\ obs'.panic = obs.panic
                 /\ ClockSame]_vars

\* Sleep and Tick have returned at once on a running clock whose reference
\* clock had advanced since the last sync.
C23_Witness ==
    /\ obs.noop = {"Sleep", "Tick"}
    /\ Runnable(c)
    /\ rnow > c.rNow
    /\ obs.panic = "none"

\* Reset or Stop is called on handle i in this step.
CallsTimerReset(i, d) ==
    MxTryTimerReset(i, d) \/ ShTryTimerReset(i, d) \/ StTryTimerReset(i, d)

CallsTimerStop(i) == MxTryTimerStop(i) \/ ShTryTimerStop(i) \/ StTryTimerStop(i)

CallsTickerStop(i) == MxTryTickerStop(i) \/ ShTryTickerStop(i) \/ StTryTickerStop(i)

\* C24: Reset or Stop on a Timer or Ticker handle whose event record is nil
\* panics and modifies no clock state: the step of the call records the
\* panic and leaves the clock, its sync point, every queue, every waker,
\* every event and every channel as they were.
C24_Unlinked ==
    [][\A i \in Timers :
          Unlinked(i) =>
              /\ CallsTimerStop(i) =>
                     obs'.panic = "Timer.Stop: uninitialized" /\ ClockSame
              /\ CallsTickerStop(i) =>
                     obs'.panic = "Ticker.Stop: uninitialized" /\ ClockSame
              /\ \A d \in Durs :
                     CallsTimerReset(i, d) =>
                        obs'.panic = "Timer.Reset: uninitialized" /\ ClockSame
              /\ \A d \in AnyDurs :
                     CallsTickerReset(i, d) =>
                        /\ obs'.panic = IF d <= 0
                                        THEN "Ticker.Reset: non-positive interval"
                                        ELSE "Ticker.Reset: uninitialized"
                        /\ ClockSame]_vars

\* Timer.Stop has panicked on an unlinked handle while an event was pending
\* on a running clock whose reference clock had advanced since the last sync.
C24_Witness ==
    /\ obs.panic = "Timer.Stop: uninitialized"
    /\ Runnable(c)
    /\ rnow > c.rNow
    /\ \E i \in Timers : Pending(tm, i)
    /\ \E i \in Timers : Unlinked(i)

\* The least when over the events pending on the clock, the zero time if
\* there is none.
MinWhen(t) ==
    LET P == {i \in Timers : Pending(t, i)}
    IN IF P = {} THEN ZeroTime
       ELSE CHOOSE v \in {t[i].when : i \in P} : \A i \in P : v <= t[i].when

\* NextAt ends in this step; in the sharded build, with the events that
\* were pending when it was called still pending: no event fired while the
\* loop went from waker to waker.
NextAtEnds ==
    \/ MxNextAt
    \/ \E k \in calls :
          /\ ShNextAt(k)
          /\ \A j \in calls' : j.op # "NextAt"
          /\ k.d = NPending

\* C25: NextAt returns normally in every state, whether all, some or none of
\* the queues are empty, and returns the least when over the pending events,
\* the zero time if nothing is pending.
C25_NextAt ==
    [][NextAtEnds =>
          /\ obs'.panic = obs.panic
          /\ obs'.nextAt = Got("value", MinWhen(tm))]_vars

\* C26, on finite runs: Fastforward does not panic; its Step never moves
\* local time backwards, leaves no event pending that was due at the time it
\* steps to, and adds none, so that every turn of the loop that fires an
\* event leaves fewer events pending; and when Fastforward returns no event
\* is pending and the clock is active iff it was when Fastforward was called.
C26_Fastforward ==
    [][\A k \in calls :
          k.op = "Fastforward" =>
              /\ obs'.panic = obs.panic
              /\ nowLocal(c', rnow') >= nowLocal(c, rnow)
              /\ MxFfStep(k) =>
                     /\ \A i \in Timers :
                           (Pending(tm, i) /\ tm[i].when <= c'.now) => ~Pending(tm', i)
                     /\ \A i \in Timers : Pending(tm', i) => Pending(tm, i)
              /\ MxFfStart(k) =>
                     /\ \A i \in Timers : ~Pending(tm', i)
                     /\ c'.active = (k.i = 1)
                     /\ calls' = calls \ {k}]_vars

\* C27: the function passed to AfterFunc is started in a step of its own, by
\* the goroutine that fire spawned: the step fires nothing, changes nothing
\* of the clock and holds none of its locks; and while f runs no lock of the
\* clock is held and every waker is in the pool, so that a call f makes on
\* the clock is not kept waiting for the handler that fired f.
C27_AfterFunc ==
    [][/\ obs'.ran # obs.ran =>
            /\ obs'.fired = obs.fired
            /\ UNCHANGED <<c, wk, pool, tm, ch, gos>>
            /\ Unlocked
       /\ FRunning =>
            /\ Unlocked
            /\ build = "sharded" => Len(pool) = nwakers]_vars

\* f has been started for every fire of its event and is still running, and
\* an event due after the one of f has fired: the slow f did not hold it up.
C27_Witness ==
    \E k \in calls, j \in Timers :
        /\ k.op = "f"
        /\ j # k.i
        /\ obs.ran[k.i] = obs.fired[k.i]
        /\ tm[j].when > tm[k.i].when
        /\ obs.fired[j] > 0

\* The waker of every non-empty queue is armed for its head: wakeAt is the
\* head's when and the reference timer is due when local time reaches it.
ArmedForHead ==
    \A w \in Wakers :
        LET next == peek(wk[w].queue)
        IN (next # 0 /\ Runnable(c)) =>
              /\ wk[w].wakeAt = tm[next].when
              /\ wk[w].waker =
                     [st |-> "armed",
                      at |-> rnow + SecondsDiv(tm[next].when - LocalNow, c.scale)]

\* C28: once Stop() and then Start() have been called on a running clock, at
\* one reference instant and with nothing else at work, Now(), Scale(),
\* Active(), the pending events and their when are what they were before,
\* and every waker is armed for the head of its queue.
C28_StopStart ==
    (nops = 12 /\ gos = {}) =>
        /\ LocalNow = obs.seen.now
        /\ c.scale = obs.seen.scale
        /\ c.active = obs.seen.active
        /\ \A i \in Timers :
              obs.seen.when[i] = IF Pending(tm, i) THEN tm[i].when ELSE Never
        /\ \A w \in Wakers : wk[w].queue = obs.seen.queue[w]
        /\ ArmedForHead

\* Stop() and Start() have been called on a running clock with scale 2 that
\* has an event pending, some reference time after the event was scheduled.
C28_Witness ==
    /\ nops = 12
    /\ gos = {}
    /\ c.scale = 2
    /\ rnow > 0
    /\ \E i \in Timers : Pending(tm, i) /\ tm[i].when > LocalNow

\* C29: once SetScale(s) has been called a second time with the same s, right
\* after the first, Scale(), Active(), Now(), the queues, wakeAt and the
\* reference timer of every waker are what they were after the first call.
C29_SetScale ==
    (nops = 22 /\ gos = {}) => SeenAt(rnow, c, tm, wk) = obs.seen

\* SetScale(s) has been called twice on a running clock with an event
\* pending, with a scale other than the one the clock had.
C29_Witness ==
    /\ nops = 22
    /\ gos = {}
    /\ c.active
    /\ c.scale = 2
    /\ \E i \in Timers : Pending(tm, i) /\ tm[i].when > LocalNow

\* C30: on the stepped clock Step(d) moves the time by exactly d and Set(t)
\* makes it exactly t, whatever events they fire; Now() returns the time;
\* and no other step changes it: not NewTimer, NewTicker, AfterFunc, Sleep,
\* Reset, Stop, a receive, the function of AfterFunc or the return of Sleep.
C30_SteppedTime ==
    [][build = "stepped" =>
          /\ \A d \in Durs : StStep(d) => c'.now = c.now + d
          /\ \A t \in SetTargets : StSet(t) => c'.now = t
          /\ StNow => (obs'.lastNow = c.now /\ c'.now = c.now)
          /\ c'.now # c.now =>
                \/ \E d \in Durs : StStep(d)
                \/ \E t \in SetTargets : StSet(t)]_vars

\* The clock was stepped past an event, which fired; a second handle was
\* made after that and Now() returned the time the Step left.
C30_Witness ==
    /\ build = "stepped"
    /\ c.now = 2
    /\ obs.lastNow = 2
    /\ obs.lastBy = "Step"
    /\ obs.fired[1] > 0
    /\ tm[2].kind # "none"

\* C31: waker correspondence.  Whenever every operation has returned and
\* every wake callback delivered has completed, a runnable clock has, for
\* each non-empty queue, a reference timer that is armed and a wakeAt equal
\* to the when of the queue's head.  (A reference timer that has fired and
\* whose callback is still to be delivered is a callback in flight.)
C31_WakerArmed ==
    (Runnable(c) /\ Quiet) =>
        \A w \in Wakers :
            (wk[w].queue # <<>> /\ wk[w].waker.st # "tick") =>
                /\ wk[w].waker.st = "armed"
                /\ wk[w].wakeAt = tm[peek(wk[w].queue)].when

\* C32: whenever a step arms or re-arms the reference timer of a waker, the
\* timer is due at the reference instant at which local time reaches the
\* when of the queue's head: the current reference instant plus
\* (head.when - local time now) / scale; a timer armed with a duration that
\* is not positive is due at once.
C32_ArmedFor ==
    [][\A w \in Wakers :
          (wk'[w].waker # wk[w].waker /\ wk'[w].waker.st = "armed") =>
              LET next == peek(wk'[w].queue)
              IN /\ next # 0
                 /\ Max(wk'[w].waker.at, rnow') =
                       rnow' + Max(SecondsDiv(tm'[next].when - nowLocal(c', rnow'),
                                              c'.scale), 0)]_vars

\* C33: when a wake callback completes, no event left in the queue it
\* drained has a when at or before the local time it drained at: the synced
\* c.now in the single build, the now the callback computed on entry in the
\* sharded build.
C33_WakeDrains ==
    [][\A k \in calls :
          /\ MxWake(k) =>
                \A i \in Timers : Pending(tm', i) => tm'[i].when > c'.now
          /\ ShWake(k) =>
                \A i \in Timers :
                    (Pending(tm', i) /\ tm'[i].s = k.i) => tm'[i].when > k.now]_vars

\* One late wake callback of the single build has fired two timers with
\* different when: both were created before local time 2, both channels hold
\* the local time 2 of the drain, and the queue is empty.
C33_Witness ==
    /\ build = "single"
    /\ obs.lastBy = "wake"
    /\ tm[1].kind = "timer"
    /\ tm[2].kind = "timer"
    /\ tm[1].when # tm[2].when
    /\ ch[1] = <<2>>
    /\ ch[2] = <<2>>
    /\ wk[0].queue = <<>>

\* A wake callback is stale when the waker it was delivered for has since been
\* cancelled (the clock is not runnable or the queue is empty) or re-armed
\* (the reference timer is set again).
StaleWake(w) ==
    \/ wk[w].waker.st # "idle"
    \/ ~Runnable(c)
    \/ wk[w].queue = <<>>

LockHolders(w) == {k \in calls : k.pc = "held" /\ k.r = w}

\* single build, NewTimer: c.lock()
MxLockNewTimer(i, d) ==
    /\ build = "single"
    /\ Fresh(i)
    /\ LockHolders(0) = {}
    /\ Cardinality(UserCalls) < MaxCalls
    /\ calls' = calls \cup {Call("NewTimer", i, d, "held", 0, 0)}
    /\ UNCHANGED <<build, rnow, c, wk, pool, tm, ch, gos, obs>>

\* single build, NewTimer from advanceRef to c.unlock()
MxHeldNewTimer(k) ==
    /\ build = "single"
    /\ k.op = "NewTimer"
    /\ k.pc = "held"
    /\ \E pick \in Picks :
          LET c1 == advanceRefMx(c, rnow)
              rec == [when |-> c1.now + k.d, period |-> 0,
                      index |-> -1, kind |-> "timer", s |-> 0]
              H1 == schedule([q |-> wk[0].queue, t |-> [tm EXCEPT ![k.i] = rec]], k.i)
              M1 == [Mk(0) EXCEPT !.c = c1, !.t = H1.t, !.w.queue = H1.q]
          IN Done(resetWaker(M1, FALSE, pick, rnow), 0, {k})
    /\ UNCHANGED <<build, rnow, pool, gos>>

\* sharded build, NewTimer: w := <-c.waker; w.lock()
ShLockNewTimer(k) ==
    /\ build = "sharded"
    /\ k.op = "NewTimer"
    /\ k.pc = "lock"
    /\ pool # <<>>
    /\ LockHolders(Head(pool)) = {}
    /\ calls' = (calls \ {k}) \cup {[k EXCEPT !.pc = "held", !.r = Head(pool)]}
    /\ pool' = Tail(pool)
    /\ UNCHANGED <<build, rnow, c, wk, tm, ch, gos, obs>>

\* sharded build, NewTimer from w.schedule(tm) to c.waker <- w
ShHeldNewTimer(k) ==
    /\ build = "sharded"
    /\ k.op = "NewTimer"
    /\ k.pc = "held"
    /\ LET w   == k.r
           rec == [when |-> k.now + k.d, period |-> 0,
                   index |-> -1, kind |-> "timer", s |-> w]
           H1  == schedule([q |-> wk[w].queue, t |-> [tm EXCEPT ![k.i] = rec]], k.i)
           M1  == [Mk(w) EXCEPT !.t = H1.t, !.w.queue = H1.q]
       IN /\ Done(IF H1.t[k.i].index = 0
                  THEN waker_reset(M1, k.now, FALSE, rnow) ELSE M1, w, {k})
          /\ pool' = Append(pool, w)
    /\ UNCHANGED <<build, rnow, gos>>

\* What peek() can return to a reader that holds no lock of queue w while
\* the calls in LockHolders(w) are inserting: insert appends the new record
\* and siftup moves parents down before it places the record, so queue[0] is
\* the head before the insertion until it is the head after it; the length
\* read is the one before or the one after.  The when of a record is set
\* before the record is inserted.
RacyPeek(w) ==
    {peek(wk[w].queue)} \cup
    {IF wk[w].queue = <<>> \/ k.now + k.d < tm[peek(wk[w].queue)].when
     THEN k.i ELSE peek(wk[w].queue) : k \in LockHolders(w)}

\* The when a racing reader finds in record x.
RacyWhen(x) ==
    IF tm[x].kind # "none" THEN tm[x].when
    ELSE CHOOSE t \in {k.now + k.d : k \in {j \in calls : j.pc = "held" /\ j.i = x}} : TRUE

\* single build: NextAt runs, without a lock, while NewTimer holds c.mu.
MxNextAtRace ==
    /\ build = "single"
    /\ LockHolders(0) # {}
    /\ \E next \in RacyPeek(0) :
          obs' = [obs EXCEPT !.nextAt =
                     Got("value", IF next = 0 THEN ZeroTime ELSE RacyWhen(next))]
    /\ UNCHANGED <<build, rnow, c, wk, pool, tm, ch, calls, gos>>

\* sharded build: one turn of the loop of NextAt, under the read lock of the
\* clock (w.rlock() is Clock.rlock, promoted: waker has lock and unlock
\* only), while NewTimer holds the mu of waker k.i.
ShNextAtRace(k) ==
    /\ build = "sharded"
    /\ k.op = "NextAt"
    /\ LockHolders(k.i) # {}
    /\ \E next \in RacyPeek(k.i) :
          LET t1  == [x \in Timers |-> [tm[x] EXCEPT !.when = RacyWhen(x)]]
              res == nextAtIter(t1, k.now, next)
          IN IF res.st = "panic"
             THEN /\ calls' = calls \ {k}
                  /\ obs' = [obs EXCEPT !.panic = "NextAt: nil pointer dereference"]
             ELSE IF k.i = nwakers - 1
                  THEN /\ calls' = calls \ {k}
                       /\ obs' = [obs EXCEPT !.nextAt = res]
                  ELSE /\ calls' = (calls \ {k}) \cup {[k EXCEPT !.i = @ + 1, !.now = res.v]}
                       /\ obs' = obs
    /\ UNCHANGED <<build, rnow, c, wk, pool, tm, ch, gos>>

\* Calls in flight at the same time when one of them is NextAt.
MaxRacing == 2

\* sharded build: NewTimer and NextAt are called while the other may be at
\* work.
LkNewTimerCall(i, d) ==
    /\ build = "sharded"
    /\ Fresh(i)
    /\ \A k \in calls : k.op # "NewTimer"
    /\ Cardinality(UserCalls) < MaxRacing
    /\ calls' = calls \cup {Call("NewTimer", i, d, "sync", rnow, 0)}
    /\ UNCHANGED <<build, rnow, c, wk, pool, tm, ch, gos, obs>>

LkNextAtCall ==
    /\ build = "sharded"
    /\ \A k \in calls : k.op # "NextAt"
    /\ Cardinality(UserCalls) < MaxRacing
    /\ calls' = calls \cup {Call("NextAt", 0, NPending, "lock", rnow, ZeroTime)}
    /\ UNCHANGED <<build, rnow, c, wk, pool, tm, ch, gos, obs>>

\* A method that takes a lock waits until no call holds it; NextAt of the
\* single build takes none, and NextAt of the sharded build takes the read
\* lock of the clock, which no call holds from one step to the next.
NextLk ==
    \/ Run /\ Tick
    \/ Run /\ MxRefFire
    \/ Run /\ MxRecv
    \/ Run /\ LockHolders(0) = {} /\ \E k \in calls : MxWake(k)
    \/ Run /\ \E k \in calls : MxHeldNewTimer(k)
    \/ Run /\ \E w \in Wakers : ShRefFire(w)
    \/ Run /\ \E g \in gos : LockHolders(g.w) = {} /\ ShGoReset(g)
    \/ Run /\ \E k \in calls : ShSync(k)
    \/ Run /\ \E k \in calls : ShLockNewTimer(k)
    \/ Run /\ \E k \in calls : ShHeldNewTimer(k)
    \/ Run /\ \E k \in calls : LockHolders(k.i) = {} /\ ShWake(k)
    \/ Run /\ \E k \in calls : ShNextAt(k)
    \/ Run /\ \E k \in calls : ShNextAtRace(k)
    \/ Op /\ LockHolders(0) = {} /\ MxStart
    \/ Op /\ \E i \in Timers, d \in Durs : MxLockNewTimer(i, d)
    \/ Op /\ LockHolders(0) = {} /\ \E i \in Timers : MxTimerStop(i)
    \/ Op /\ MxNextAt
    \/ Op /\ MxNextAtRace
    \/ Op /\ ShStart
    \/ Op /\ \E i \in Timers, d \in Durs : LkNewTimerCall(i, d)
    \/ Op /\ LkNextAtCall

SpecLk == Init /\ [][NextLk]_vars

\* This step reads the queue of waker w in NextAt.
QueueRead(w) ==
    \/ w = 0 /\ (MxNextAt \/ MxNextAtRace)
    \/ \E k \in calls : k.i = w /\ (ShNextAt(k) \/ ShNextAtRace(k))

\* C35: lock discipline.  At most one call holds the lock of a queue; a step
\* that changes a queue or its wakeAt is taken by the call that holds the
\* lock of that queue, if a call holds it; and a step of NextAt reads a
\* queue only when no call holds the lock of that queue, so that it never
\* reads a queue that is being changed.
C35_LockDiscipline ==
    [][\A w \in Wakers :
          /\ Cardinality(LockHolders(w)) <= 1
          /\ (wk'[w].queue # wk[w].queue \/ wk'[w].wakeAt # wk[w].wakeAt)
                => LockHolders(w) \subseteq (calls \ calls')
          /\ QueueRead(w) => LockHolders(w) = {}]_vars

\* The same, of the steps that write: every change of a queue, of a wakeAt
\* or of the clock's sync point and settings is made with no other call
\* holding the lock.
WritesLocked ==
    [][\A w \in Wakers :
          /\ Cardinality(LockHolders(w)) <= 1
          /\ (wk'[w].queue # wk[w].queue \/ wk'[w].wakeAt # wk[w].wakeAt)
                => LockHolders(w) \subseteq (calls \ calls')]_vars

\* ------------------------------------------------------------ Set, then Now
\* The clock, created stopped, is started and scaled and has timers made on
\* it while the reference clock advances; then Set(t) is called, which
\* counts as call number 10 + t, and then Now(), which counts as call number
\* 20 + t.  Goroutines and callbacks run when they like; the reference clock
\* stands still once Set is called.
NextSe ==
    \/ Free /\ Tick
    \/ Run /\ MxRefFire
    \/ Run /\ MxRecv
    \/ Run /\ \E k \in calls : MxWake(k)
    \/ Run /\ \E w \in Wakers : ShRefFire(w)
    \/ Run /\ \E g \in gos : ShGoReset(g)
    \/ Run /\ \E g \in gos : ShGoCheck(g)
    \/ Run /\ \E k \in calls : ShSync(k)
    \/ Run /\ \E k \in calls : ShNewTimer(k)
    \/ Run /\ \E k \in calls : ShWake(k)
    \/ Run /\ \E k \in calls : ShNow(k)
    \/ Op /\ MxStart
    \/ Op /\ \E s \in Scales : MxSetScale(s)
    \/ Op /\ \E i \in Timers, d \in Durs : MxNewTimer(i, d)
    \/ Op /\ ShStart
    \/ Op /\ \E s \in Scales : ShSetScale(s)
    \/ Op /\ \E i \in Timers, d \in Durs : ShNewTimerCall(i, d)
    \/ \E t \in SetTargets : Begin(10 + t) /\ UserCalls = {} /\ MxSet(t)
    \/ \E t \in SetTargets : Begin(10 + t) /\ UserCalls = {} /\ ShSet(t)
    \/ \E t \in 0..MaxLocal : Then(10 + t, 20 + t) /\ MxNow
    \/ \E t \in 0..MaxLocal : Then(10 + t, 20 + t) /\ ShNowCall

SpecSe == Init /\ [][NextSe]_vars

\* C36: Set(t) makes (t, the current reference time) the sync point and
\* changes neither scale nor active, whatever the sync point, the scale and
\* the active flag were and however far the reference clock had run since
\* the last sync; and a Now() called after Set(t), the reference clock not
\* having moved since, returns t.
C36_Set ==
    [][/\ \A t \in 0..MaxLocal :
             (MxSet(t) \/ ShSet(t)) => c' = [c EXCEPT !.now = t, !.rNow = rnow]
       /\ (MxNow /\ nops \in 10..(10 + MaxLocal)) => obs'.lastNow = nops - 10
       /\ \A k \in calls :
             (ShNow(k) /\ nops >= 20) => obs'.lastNow = nops - 20]_vars

\* Now() has returned 1 after Set(1) on a clock running at scale 2: the
\* reference clock is at MaxRef, the sync point of Set, and local time had
\* run beyond 1 before Set.
C36_Witness ==
    /\ nops = 21
    /\ UserCalls = {}
    /\ obs.lastNow = 1
    /\ obs.backward
    /\ c.active
    /\ c.scale = 2
    /\ c.rNow = MaxRef
    /\ rnow = MaxRef

\* ------------------------------------------------------ the queues as heaps
\* The queue of package steppedtime is a container/heap: the package gives
\* Len, Less, Swap, Push and Pop, and the standard library's heap.Push,
\* heap.Remove and heap.Fix, binary, call them.
Less(H, i, j) == H.t[At(H.q, i)].when < H.t[At(H.q, j)].when

Swap(H, i, j) ==
    LET a == At(H.q, i)
        b == At(H.q, j)
    IN [q |-> Put(Put(H.q, i, b), j, a),
        t |-> [H.t EXCEPT ![b].index = i, ![a].index = j]]

Push(H, x) == [q |-> Append(H.q, x), t |-> [H.t EXCEPT ![x].index = Len(H.q)]]

Pop(H) ==
    LET n == Len(H.q) - 1
    IN [q |-> SubSeq(H.q, 1, n), t |-> [H.t EXCEPT ![At(H.q, n)].index = -1]]

\* container/heap: up(h, j); (j - 1) / 2 is Go's division, which truncates.
RECURSIVE heap_up(_, _)
heap_up(H, j) ==
    LET i == Trunc(j - 1, 2)
    IN IF i = j \/ ~Less(H, j, i) THEN H ELSE heap_up(Swap(H, i, j), i)

\* container/heap: the loop of down(h, i0, n); it ends at position i.
RECURSIVE heap_downLoop(_, _, _)
heap_downLoop(H, i, n) ==
    LET j1 == 2 * i + 1
        j  == IF j1 + 1 < n /\ Less(H, j1 + 1, j1) THEN j1 + 1 ELSE j1
    IN IF j1 >= n \/ ~Less(H, j, i)
       THEN [h |-> H, i |-> i]
       ELSE heap_downLoop(Swap(H, i, j), j, n)

\* container/heap: down(h, i0, n) reports whether the element moved.
heap_down(H, i0, n) ==
    LET r == heap_downLoop(H, i0, n) IN [h |-> r.h, moved |-> r.i > i0]

heap_Push(H, x) == heap_up(Push(H, x), Len(H.q))

heap_Remove(H, i) ==
    LET n == Len(H.q) - 1
    IN IF n # i
       THEN LET d == heap_down(Swap(H, i, n), i, n)
            IN Pop(IF ~d.moved THEN heap_up(d.h, i) ELSE d.h)
       ELSE Pop(H)

heap_Fix(H, i) ==
    LET d == heap_down(H, i, Len(H.q))
    IN IF ~d.moved THEN heap_up(d.h, i) ELSE d.h

\* schedule, unschedule and reschedule of the stepped clock.
StSchedule(H, x) == heap_Push(H, x)

StUnschedule(H, x) == IF H.t[x].index = -1 THEN H ELSE heap_Remove(H, H.t[x].index)

StReschedule(H, x) ==
    IF H.t[x].index = -1 THEN StSchedule(H, x) ELSE heap_Fix(H, H.t[x].index)

\* The queue operations are exercised on their own, on a queue of up to HpN
\* records with a when in 0..HpMaxWhen: a queue of the relative clock (build
\* "single", the 4-ary heap of schedule.go) and one of the stepped clock
\* (build "stepped", container/heap).  HpN records fill three levels of
\* either heap.  The last HpPeriodic records are periodic, and the queue is
\* drained at times that leave their when within 0..HpMaxWhen.
HpN == 6
HpMaxWhen == 2
HpPeriodic == 1

HpIds == 1..HpN

HpPeriod(x) == IF x > HpN - HpPeriodic THEN x - (HpN - HpPeriodic) ELSE 0

InitHp ==
    /\ build \in {"single", "stepped"}
    /\ rnow = 0
    /\ c = [scale |-> InitScale, active |-> FALSE, now |-> 0, rNow |-> 0]
    /\ wk = [w \in Wakers |-> [queue |-> <<>>, waker |-> NilTimer, wakeAt |-> 0]]
    /\ pool = <<>>
    /\ tm = [x \in HpIds |-> [NoTimer EXCEPT !.kind = "timer", !.period = HpPeriod(x)]]
    /\ ch = [i \in Timers |-> <<>>]
    /\ calls = {}
    /\ gos = {}
    /\ obs = NoObs
    /\ nops = 0

HpHeap == [q |-> wk[0].queue, t |-> tm]

\* The operation leaves the heap H.  A record that has left the queue is
\* dropped by its owner: its id stands from then on for a new record, whose
\* when is the zero value until it is set.
HpDone(H) ==
    /\ wk' = [wk EXCEPT ![0].queue = H.q]
    /\ tm' = [x \in HpIds |->
                IF H.t[x].index = -1 THEN [H.t[x] EXCEPT !.when = 0] ELSE H.t[x]]
    /\ UNCHANGED <<build, rnow, c, pool, ch, calls, gos, obs, nops>>

\* unschedule(t), of a record that is queued (remove) or is not.
HpUnschedule(x) ==
    HpDone(IF build = "stepped" THEN StUnschedule(HpHeap, x) ELSE unschedule(HpHeap, x))

\* t.when = w; reschedule(t), of a record that is queued (fix after its when
\* was raised, lowered or left as it was) or is not (schedule, insert).
HpReschedule(x, w) ==
    LET H == [HpHeap EXCEPT !.t[x].when = w]
    IN HpDone(IF build = "stepped" THEN StReschedule(H, x) ELSE reschedule(H, x))

\* The queue's part of the loop of checkSchedule: what it does to the
\* queue, the fires left out.
RECURSIVE drainHeap(_, _, _)
drainHeap(H, now, stepped) ==
    LET x == peek(H.q)
    IN IF x # 0 /\ Due(H.t, x, now)
       THEN IF H.t[x].period <= 0
            THEN drainHeap(IF stepped THEN StUnschedule(H, x) ELSE unschedule(H, x),
                           now, stepped)
            ELSE LET H1 == [H EXCEPT !.t[x].when = now + H.t[x].period]
                 IN drainHeap(IF stepped THEN StReschedule(H1, x) ELSE reschedule(H1, x),
                              now, stepped)
       ELSE H

HpDrain(now) ==
    /\ peek(wk[0].queue) # 0
    /\ HpDone(drainHeap(HpHeap, now, build = "stepped"))

NextHp ==
    \/ \E x \in HpIds : HpUnschedule(x)
    \/ \E x \in HpIds, w \in 0..HpMaxWhen : HpReschedule(x, w)
    \/ \E now \in 0..(HpMaxWhen - HpPeriodic) : HpDrain(now)

SpecHp == InitHp /\ [][NextHp]_vars

\* The children of a node are at arity * i + 1 .. arity * i + arity.
HpParent(i) == IF build = "stepped" THEN Trunc(i - 1, 2) ELSE (i - 1) \div 4

\* C37: queue ordering.  In every queue that insert, remove and fix can
\* leave, the when of each node is at or before the when of each of its
\* children, and peek() returns a record whose when is the least of the
\* queue.
C37_HeapOrder ==
    LET q == wk[0].queue
    IN /\ \A i \in 1..(Len(q) - 1) : tm[At(q, HpParent(i))].when <= tm[At(q, i)].when
       /\ \A i \in 0..(Len(q) - 1) : tm[peek(q)].when <= tm[At(q, i)].when

\* A full queue of three levels with three different whens down one branch:
\* the record at the bottom has been queued, its parent and the head put
\* above it.
C37_Witness ==
    LET q == wk[0].queue
    IN /\ build = "single"
       /\ Len(q) = HpN
       /\ tm[At(q, 0)].when = 0
       /\ tm[At(q, 1)].when = 1
       /\ tm[At(q, 5)].when = 2
       /\ At(q, 5) = 1
       /\ At(q, 0) = HpN

\* C38: index validity.  In every queue that schedule, unschedule,
\* reschedule and the drain loop can leave, the record at position i has
\* index i, no record is at two positions, and a record has either index -1
\* and is not in the queue (it was never queued, was removed, or fired as a
\* one-shot) or an index within the queue, at which the queue holds it.
C38_IndexValid ==
    LET q == wk[0].queue
    IN /\ \A i \in 0..(Len(q) - 1) : tm[At(q, i)].index = i
       /\ \A i, j \in 0..(Len(q) - 1) : At(q, i) = At(q, j) => i = j
       /\ \A x \in HpIds :
             IF tm[x].index = -1
             THEN \A i \in 0..(Len(q) - 1) : At(q, i) # x
             ELSE tm[x].index \in 0..(Len(q) - 1) /\ At(q, tm[x].index) = x

\* The queue of the stepped clock holds all records but the first, which has
\* index -1; the periodic record, with when 2, is at the bottom, under a
\* record with when 2, and the head has when 1.
C38_Witness ==
    LET q == wk[0].queue
    IN /\ build = "stepped"
       /\ Len(q) = HpN - 1
       /\ tm[1].index = -1
       /\ tm[HpN].index = HpN - 2
       /\ tm[HpN].when = 2
       /\ tm[At(q, 0)].when = 1
       /\ tm[At(q, 1)].when = 2

\* ------------------------------------------- the drain loop, turn by turn
\* steppedtime.Time is an int64 and Time.Add is t + Time(d), which wraps
\* around.  TLC has no 64-bit integers: the loop is followed, test and body
\* a step each, on a clock whose Time has TimeBits bits and wraps in the same way.
TimeBits == 3

MinTime == 0 - 2 ^ (TimeBits - 1)

MaxTime == 2 ^ (TimeBits - 1) - 1

Times == MinTime..MaxTime

\* func (t Time) Add(d Duration) Time { return t + Time(d) }
Add(t, d) == ((t + d - MinTime) % 2 ^ TimeBits) + MinTime

\* A call record with op = "checkSchedule" is a Set or a Step that is in the
\* loop of checkSchedule, the mutex held.
InDrain == \E k \in calls : k.op = "checkSchedule"

DrEnter(now) ==
    /\ Unlocked
    /\ c' = [c EXCEPT !.now = now]
    /\ calls' = calls \cup {Call("checkSchedule", 0, 0, "held", 0, 0)}
    /\ UNCHANGED <<build, rnow, wk, pool, tm, ch, gos, obs, nops>>

\* Set(now): c.now = now; c.checkSchedule()
DrSet(t) == DrEnter(t)

\* Step(dt): c.now = c.now.Add(dt); c.checkSchedule()
DrStep(d) == DrEnter(Add(c.now, d))

\* NewTimer(d) and NewTicker(d): when = c.now.Add(d); NewTicker panics
\* unless d > 0.  Neither checks the schedule.
DrCreate(i, d, kind) ==
    /\ Unlocked
    /\ Fresh(i)
    /\ kind = "ticker" => d > 0
    /\ LET rec == [when |-> Add(c.now, d),
                   period |-> IF kind = "ticker" THEN d ELSE 0,
                   index |-> -1, kind |-> kind, s |-> 0]
           H1 == StSchedule([q |-> wk[0].queue, t |-> [tm EXCEPT ![i] = rec]], i)
       IN /\ wk' = [wk EXCEPT ![0].queue = H1.q]
          /\ tm' = H1.t
    /\ UNCHANGED <<build, rnow, c, pool, ch, calls, gos, obs, nops>>

\* Ticker.Reset(d): panics unless d > 0; when = now.Add(d), period = d,
\* reschedule.
DrTickerReset(i, d) ==
    /\ Unlocked
    /\ tm[i].kind = "ticker"
    /\ d > 0
    /\ LET H0 == [q |-> wk[0].queue,
                  t |-> [tm EXCEPT ![i].when = Add(c.now, d), ![i].period = d]]
           H1 == StReschedule(H0, i)
       IN /\ wk' = [wk EXCEPT ![0].queue = H1.q]
          /\ tm' = H1.t
    /\ UNCHANGED <<build, rnow, c, pool, ch, calls, gos, obs, nops>>

\* The test of the loop of checkSchedule finds the head due: the call, at
\* the test while its d is 0, enters the body.
DrTest(k) ==
    /\ k.op = "checkSchedule"
    /\ k.d = 0
    /\ LET x == peek(wk[0].queue) IN IF x = 0 THEN FALSE ELSE Due(tm, x, c.now)
    /\ calls' = (calls \ {k}) \cup {[k EXCEPT !.d = 1]}
    /\ UNCHANGED <<build, rnow, c, wk, pool, tm, ch, gos, obs, nops>>

\* The body of the loop: a one-shot is unscheduled, a periodic record moved
\* to now.Add(period); then the test again.  t.f(c.now) sends without
\* blocking, closes a channel or starts a goroutine: it does not touch the
\* queue and is left out.
DrIter(k) ==
    /\ k.op = "checkSchedule"
    /\ k.d = 1
    /\ LET x  == peek(wk[0].queue)
           H0 == [q |-> wk[0].queue, t |-> tm]
           H1 == IF tm[x].period <= 0
                 THEN StUnschedule(H0, x)
                 ELSE StReschedule(
                        [H0 EXCEPT !.t[x].when = Add(c.now, tm[x].period)], x)
       IN /\ wk' = [wk EXCEPT ![0].queue = H1.q]
          /\ tm' = H1.t
    /\ calls' = (calls \ {k}) \cup {[k EXCEPT !.d = 0]}
    /\ UNCHANGED <<build, rnow, c, pool, ch, gos, obs, nops>>

\* The test finds the queue empty or its head not due: the loop ends.
DrExit(k) ==
    /\ k.op = "checkSchedule"
    /\ k.d = 0
    /\ LET x == peek(wk[0].queue) IN IF x = 0 THEN TRUE ELSE ~Due(tm, x, c.now)
    /\ calls' = calls \ {k}
    /\ UNCHANGED <<build, rnow, c, wk, pool, tm, ch, gos, obs, nops>>

DrLoop == \E k \in calls : DrTest(k) \/ DrIter(k) \/ DrExit(k)

NextDr ==
    \/ \E t \in Times : DrSet(t)
    \/ \E d \in 1..MaxD : DrStep(d)
    \/ \E i \in Timers, d \in Durs : DrCreate(i, d, "timer")
    \/ \E i \in Timers, d \in Durs : DrCreate(i, d, "ticker")
    \/ \E i \in Timers, d \in Durs : DrTickerReset(i, d)
    \/ \E k \in calls : DrTest(k)
    \/ \E k \in calls : DrIter(k)
    \/ \E k \in calls : DrExit(k)

\* The goroutine that is in the loop goes on running: a turn of the loop
\* that can be taken is taken.
SpecDr == InitTd /\ [][NextDr]_vars /\ WF_vars(DrLoop)

\* C39: the drain loop terminates.  Whatever the queue and whatever the
\* local time, a Set or a Step that has entered the loop of checkSchedule
\* leaves it.
C39_DrainEnds == InDrain ~> ~InDrain

\* The loop does end when no periodic record's now.Add(period) wraps around.
NoWrapEnds ==
    (InDrain /\ \A i \in Timers : c.now + tm[i].period <= MaxTime) ~> ~InDrain

\* ------------------------------------------------ waiting for locks, hand-offs
\* resetWaker gets as far as stopWaker: it returns before only when the
\* clock runs, the queue has a head, nothing is dirty and the waker is
\* already set for that head.
ReachesStop(M, dirty) ==
    \/ ~M.c.active
    \/ M.c.scale = 0
    \/ M.w.queue = <<>>
    \/ dirty
    \/ M.w.waker.st = "nil"
    \/ M.t[peek(M.w.queue)].when # M.w.wakeAt

\* single build: the call k, in NewTimer with c.mu held, is in stopWaker at
\* `<-c.sleep`: the waker is not nil and its goroutine has neither taken the
\* interrupt nor closed sleep.
MxAsleep(k) ==
    /\ build = "single"
    /\ k.op = "NewTimer"
    /\ k.pc = "held"
    /\ wk[0].waker.st \notin {"nil", "idle"}
    /\ LET c1 == advanceRefMx(c, rnow)
           rec == [when |-> c1.now + k.d, period |-> 0,
                   index |-> -1, kind |-> "timer", s |-> 0]
           H1 == schedule([q |-> wk[0].queue, t |-> [tm EXCEPT ![k.i] = rec]], k.i)
           M1 == [Mk(0) EXCEPT !.c = c1, !.t = H1.t, !.w.queue = H1.q]
       IN ReachesStop(M1, FALSE)

\* single build: the waker goroutine takes `case sleep <- struct{}{}` from
\* the call k that waits in stopWaker, and closes sleep; the call sees
\* ok = true (kept in k.now, which NewTimer of this build does not use) and
\* stops the reference timer, or takes the value out of its channel when
\* Stop reports that it has fired.
MxGoIntr(k) ==
    /\ MxAsleep(k)
    /\ wk[0].waker.st \in {"armed", "tick"}
    /\ wk' = [wk EXCEPT ![0].waker = IdleTimer]
    /\ calls' = (calls \ {k}) \cup {[k EXCEPT !.now = 1]}
    /\ UNCHANGED <<build, rnow, c, pool, tm, ch, gos, obs>>

\* single build: NewTimer goes on to c.unlock() once it does not wait in
\* stopWaker.
MxAwakeNewTimer(k) == ~MxAsleep(k) /\ MxHeldNewTimer(k)

\* The waker of every queue is in the pool or with the call that took it.
PoolWhole ==
    build = "sharded" =>
        /\ Len(pool) <= nwakers
        /\ \A w \in Wakers :
              Cardinality({j \in 1..Len(pool) : pool[j] = w})
                  + Cardinality(LockHolders(w)) = 1

\* The steps of the program's goroutines - callbacks, waker goroutines and
\* calls that have begun - each with the condition under which it can be
\* taken: a step that takes a lock waits until no call holds it.
DlRecv == Run /\ MxRecv

DlIntr == Run /\ \E k \in calls : MxGoIntr(k)

MxWakeReady == build = "single" /\ LockHolders(0) = {} /\ \E k \in calls : k.op = "wake"

DlMxWake == Run /\ LockHolders(0) = {} /\ \E k \in calls : MxWake(k)

MxNewTimerReady ==
    \E k \in calls : build = "single" /\ k.op = "NewTimer" /\ k.pc = "held" /\ ~MxAsleep(k)

DlMxNewTimer == Run /\ \E k \in calls : MxAwakeNewTimer(k)

GoResetReady ==
    \E g \in gos : build = "sharded" /\ g.kind = "reset" /\ LockHolders(g.w) = {}

DlGoReset == Run /\ \E g \in gos : LockHolders(g.w) = {} /\ ShGoReset(g)

DlSync == Run /\ \E k \in calls : ShSync(k)

DlLock == Run /\ \E k \in calls : ShLockNewTimer(k)

ShNewTimerReady ==
    \E k \in calls : build = "sharded" /\ k.op = "NewTimer" /\ k.pc = "held"

DlShNewTimer == Run /\ \E k \in calls : ShHeldNewTimer(k)

ShWakeReady ==
    \E k \in calls : /\ build = "sharded" /\ k.op = "wake" /\ k.pc = "lock"
                     /\ LockHolders(k.i) = {}

DlShWake == Run /\ \E k \in calls : LockHolders(k.i) = {} /\ ShWake(k)

\* Calls arrive and the reference clock moves and fires its timers as they
\* like.
NextDl ==
    \/ DlRecv
    \/ DlIntr
    \/ DlMxWake
    \/ DlMxNewTimer
    \/ DlGoReset
    \/ DlSync
    \/ DlLock
    \/ DlShNewTimer
    \/ DlShWake
    \/ Run /\ Tick
    \/ Run /\ MxRefFire
    \/ Run /\ \E w \in Wakers : ShRefFire(w)
    \/ Op /\ LockHolders(0) = {} /\ MxStart
    \/ Op /\ LockHolders(0) = {} /\ \E s \in Scales : MxSetScale(s)
    \/ Op /\ \E i \in Timers, d \in Durs : MxLockNewTimer(i, d)
    \/ Op /\ LockHolders(0) = {} /\ \E i \in Timers : MxTimerStop(i)
    \/ Op /\ ShStart
    \/ Op /\ \E s \in Scales : ShSetScale(s)
    \/ Op /\ \E i \in Timers, d \in Durs : LkNewTimerCall(i, d)

\* The goroutines of the program are scheduled fairly: a step that can be
\* taken from some time on is taken.  For the handlers that work through a
\* queue, weak fairness is written out, WF_vars(A) being
\* []<>~ENABLED <<A>>_vars \/ []<><<A>>_vars: such a handler has a next state
\* in every state where its condition holds, and its step ends a call or a
\* goroutine.
DlFair ==
    /\ WF_vars(DlRecv)
    /\ WF_vars(DlIntr)
    /\ WF_vars(DlSync)
    /\ WF_vars(DlLock)
    /\ ([]<>~MxWakeReady \/ []<><<DlMxWake>>_vars)
    /\ ([]<>~MxNewTimerReady \/ []<><<DlMxNewTimer>>_vars)
    /\ ([]<>~GoResetReady \/ []<><<DlGoReset>>_vars)
    /\ ([]<>~ShNewTimerReady \/ []<><<DlShNewTimer>>_vars)
    /\ ([]<>~ShWakeReady \/ []<><<DlShWake>>_vars)

SpecDl == Init /\ [][NextDl]_vars /\ DlFair

\* C40: the relative clock is deadlock-free.  Whenever a call, a callback or
\* a goroutine is at work or waits - for a lock, for a waker of the pool or,
\* in stopWaker, for the waker goroutine - all of them come to their end;
\* every waker is in the pool or held by one call, so that the pool never
\* holds more than nwakers and the send that returns a waker finds room.
C40_NoDeadlock ==
    /\ ~Quiet ~> Quiet
    /\ []PoolWhole
    /\ [][\A k \in calls : ShHeldNewTimer(k) => Len(pool) < nwakers]_vars

\* A call to NewTimer, in stopWaker with the clock's lock held, has had its
\* interrupt taken by the waker goroutine (ok = true) while the clock runs,
\* and goes on.
C40_Witness ==
    /\ build = "single"
    /\ c.active
    /\ \E k \in calls : k.pc = "held" /\ k.now = 1 /\ ~MxAsleep(k)
    /\ wk[0].waker.st = "idle"
    /\ wk[0].queue # <<>>

====
